---- MODULE Spec2Model ----
(***************************************************************************)
(* LMUSettingsManager: the configuration model (configuration_model.py),   *)
(* its per-field change tracking (field_state.py) and the two codecs it    *)
(* drives (json_parser.py, ini_parser.py).                                 *)
(*                                                                         *)
(* Text is a sequence of one-character strings, a file is the sequence of  *)
(* strings handed to writelines(), and a Python value is a record          *)
(* [t, n, s, e]: t the Python type, n the number (floats in tenths), s the *)
(* characters of a str, e the elements of a list or tuple.  Floats range   *)
(* over the decimals with one digit after the point (no nan, no inf).      *)
(***************************************************************************)
EXTENDS Integers, Sequences, FiniteSets, TLC

(***************************************************************************)
(* Python str methods, on sequences of characters.                         *)
(***************************************************************************)
DQ == "\""
NL == "\n"
BSL == "\\"

Digits == <<"0", "1", "2", "3", "4", "5", "6", "7", "8", "9">>

IsDigit(c) == \E i \in 1..10 : Digits[i] = c

DigitVal(c) == (CHOOSE i \in 1..10 : Digits[i] = c) - 1

\* str.isspace for one character
IsSpace(c) == c \in {" ", "\n", "\t", "\r"}

\* s[i:] with i 1-based
From(s, i) == IF i > Len(s) THEN <<>> ELSE SubSeq(s, i, Len(s))

\* s[:i] exclusive, i 1-based
Upto(s, i) == IF i <= 1 THEN <<>> ELSE SubSeq(s, 1, i - 1)

\* p occurs in s at position i
MatchAt(s, p, i) ==
    /\ i >= 1
    /\ i + Len(p) - 1 <= Len(s)
    /\ \A k \in 1..Len(p) : s[i + k - 1] = p[k]

\* str.find, 1-based, 0 when absent
Find(s, p) ==
    IF \E i \in 1..(Len(s) + 1) : MatchAt(s, p, i)
    THEN CHOOSE i \in 1..(Len(s) + 1) :
             MatchAt(s, p, i) /\ \A j \in 1..(i - 1) : ~MatchAt(s, p, j)
    ELSE 0

\* p in s
Contains(s, p) == Find(s, p) > 0

\* str.startswith
StartsWith(s, p) == MatchAt(s, p, 1)

\* str.endswith
EndsWith(s, p) == Len(p) <= Len(s) /\ MatchAt(s, p, Len(s) - Len(p) + 1)

\* str.lstrip
RECURSIVE LStrip(_)
LStrip(s) == IF s # <<>> /\ IsSpace(Head(s)) THEN LStrip(Tail(s)) ELSE s

\* str.rstrip
RECURSIVE RStrip(_)
RStrip(s) ==
    IF s # <<>> /\ IsSpace(s[Len(s)]) THEN RStrip(SubSeq(s, 1, Len(s) - 1)) ELSE s

\* str.strip
Strip(s) == LStrip(RStrip(s))

\* str.replace(old, new): every non-overlapping occurrence, left to right
RECURSIVE Replace(_, _, _)
Replace(s, old, new) ==
    IF old = <<>> \/ Find(s, old) = 0 THEN s
    ELSE LET i == Find(s, old)
         IN  Upto(s, i) \o new \o Replace(From(s, i + Len(old)), old, new)

\* str.lower for one character (the capitals the documents use)
LowerChar(c) ==
    CASE c = "O" -> "o"
      [] c = "N" -> "n"
      [] c = "T" -> "t"
      [] c = "F" -> "f"
      [] c = "I" -> "i"
      [] c = "A" -> "a"
      [] c = "Y" -> "y"
      [] OTHER -> c

\* str.lower
Lower(s) == [i \in 1..Len(s) |-> LowerChar(s[i])]

\* "".join(parts)
RECURSIVE Join(_)
Join(parts) == IF parts = <<>> THEN <<>> ELSE Head(parts) \o Join(Tail(parts))

\* file.readlines(): the text cut after every newline
RECURSIVE SplitLines(_)
SplitLines(text) ==
    IF text = <<>> THEN <<>>
    ELSE LET i == Find(text, <<NL>>)
         IN  IF i = 0 THEN <<text>>
             ELSE <<Upto(text, i + 1)>> \o SplitLines(From(text, i + 1))

(***************************************************************************)
(* Python values.                                                          *)
(***************************************************************************)
\* a value: t in "NoneType", "bool", "int", "float", "str", "tuple", "list",
\* "dict"; e holds the elements of a tuple or list, the members of a dict
Val(t, n, s, e) == [t |-> t, n |-> n, s |-> s, e |-> e]

PyNone == Val("NoneType", 0, <<>>, <<>>)

PyBool(b) == Val("bool", IF b THEN 1 ELSE 0, <<>>, <<>>)

PyInt(n) == Val("int", n, <<>>, <<>>)

\* a float, given in tenths
PyFloat(tenths) == Val("float", tenths, <<>>, <<>>)

\* float("inf") and float("-inf"): sign is 1 or -1; s names what is not
\* a finite number
PyInf(sign) == Val("float", sign, <<"i", "n", "f">>, <<>>)

\* float("nan")
PyNaN == Val("float", 0, <<"n", "a", "n">>, <<>>)

PyStr(s) == Val("str", 0, s, <<>>)

PyTuple(e) == Val("tuple", 0, <<>>, e)

\* isinstance(v, bool), and isinstance(v, int), which a bool satisfies too
IsBool(v) == v.t = "bool"

IsInt(v) == v.t \in {"bool", "int"}

IsFloat(v) == v.t = "float"

IsNumber(v) == v.t \in {"bool", "int", "float"}

\* math.isfinite(v) of a number
IsFinite(v) == v.t # "float" \/ v.s = <<>>

\* a finite number in tenths
Tenths(v) == IF v.t = "float" THEN v.n ELSE v.n * 10

\* a == b
RECURSIVE PyEq(_, _)
PyEq(a, b) ==
    IF IsNumber(a) /\ IsNumber(b)
    THEN IF IsFinite(a) /\ IsFinite(b) THEN Tenths(a) = Tenths(b)
         \* an infinity equals itself only, nan equals nothing
         ELSE a = b /\ a # PyNaN
    ELSE IF a.t = "str" /\ b.t = "str" THEN a.s = b.s
    ELSE IF a.t = b.t /\ a.t \in {"tuple", "list"}
         THEN /\ Len(a.e) = Len(b.e)
              /\ \A i \in 1..Len(a.e) : PyEq(a.e[i], b.e[i])
    ELSE a.t = "NoneType" /\ b.t = "NoneType"

\* bool(v)
Truthy(v) ==
    CASE IsNumber(v) -> v.n # 0 \/ ~IsFinite(v)
      [] v.t = "str" -> v.s # <<>>
      [] v.t \in {"tuple", "list", "dict"} -> v.e # <<>>
      [] OTHER -> FALSE

\* str(n) of a natural number
RECURSIVE NatToStr(_)
NatToStr(n) ==
    IF n < 10 THEN <<Digits[n + 1]>>
    ELSE NatToStr(n \div 10) \o <<Digits[(n % 10) + 1]>>

\* str(n) of an int
IntToStr(n) == IF n < 0 THEN <<"-">> \o NatToStr(-n) ELSE NatToStr(n)

\* repr of a float given in tenths
FloatToStr(n) ==
    LET a == IF n < 0 THEN -n ELSE n
    IN  (IF n < 0 THEN <<"-">> ELSE <<>>)
            \o NatToStr(a \div 10) \o <<".">> \o NatToStr(a % 10)

\* str(v)
PyStrOf(v) ==
    CASE v.t = "bool" -> IF v.n = 1 THEN <<"T", "r", "u", "e">>
                         ELSE <<"F", "a", "l", "s", "e">>
      [] v.t = "int" -> IntToStr(v.n)
      [] v.t = "float" -> IF IsFinite(v) THEN FloatToStr(v.n)
                          ELSE (IF v.n < 0 THEN <<"-">> ELSE <<>>) \o v.s
      [] v.t = "str" -> v.s
      [] OTHER -> <<"N", "o", "n", "e">>

\* the digits of s as a number; s holds digits only
RECURSIVE DigitsVal(_)
DigitsVal(s) ==
    IF s = <<>> THEN 0
    ELSE DigitsVal(SubSeq(s, 1, Len(s) - 1)) * 10 + DigitVal(s[Len(s)])

AllDigits(s) == \A i \in 1..Len(s) : IsDigit(s[i])

\* s without a leading sign, and the sign
Unsigned(s) == IF s # <<>> /\ Head(s) \in {"-", "+"} THEN Tail(s) ELSE s

SignOf(s) == IF s # <<>> /\ Head(s) = "-" THEN -1 ELSE 1

\* int(s) of a str: [ok, n]; not ok is ValueError
ParseInt(s) ==
    LET u == Unsigned(Strip(s))
    IN  IF u # <<>> /\ AllDigits(u)
        THEN [ok |-> TRUE, n |-> SignOf(Strip(s)) * DigitsVal(u)]
        ELSE [ok |-> FALSE, n |-> 0]

\* float(s) of a str: [ok, v]; not ok is ValueError.  The numerals are
\* digits, a point and at most one digit after it, and the words inf,
\* infinity and nan in any case.
ParseFloat(s) ==
    LET u == Unsigned(Strip(s))
        dot == Find(u, <<".">>)
        ip == IF dot = 0 THEN u ELSE Upto(u, dot)
        fp == IF dot = 0 THEN <<>> ELSE From(u, dot + 1)
    IN  IF /\ AllDigits(ip) /\ AllDigits(fp)
           /\ Len(ip) + Len(fp) > 0
           /\ Len(fp) <= 1
        THEN [ok |-> TRUE,
              v |-> PyFloat(SignOf(Strip(s))
                                * (DigitsVal(ip) * 10 + DigitsVal(fp)))]
        ELSE IF Lower(u) \in {<<"i", "n", "f">>,
                              <<"i", "n", "f", "i", "n", "i", "t", "y">>}
        THEN [ok |-> TRUE, v |-> PyInf(SignOf(Strip(s)))]
        ELSE IF Lower(u) = <<"n", "a", "n">>
        THEN [ok |-> TRUE, v |-> PyNaN]
        ELSE [ok |-> FALSE, v |-> PyFloat(0)]


\* int(x) of a float in tenths: truncation toward zero
Trunc(tenths) == IF tenths >= 0 THEN tenths \div 10 ELSE -((-tenths) \div 10)

\* int(x) of a float: [ok, v, exc]; not ok is the exception exc
IntOfFloat(x) ==
    IF IsFinite(x) THEN [ok |-> TRUE, v |-> PyInt(Trunc(x.n)), exc |-> ""]
    ELSE [ok |-> FALSE, v |-> PyInt(0),
          exc |-> IF x = PyNaN THEN "ValueError" ELSE "OverflowError"]

(***************************************************************************)
(* OrderedDict: a sequence of [k, v], in insertion order.                  *)
(***************************************************************************)
DictHas(d, k) == \E i \in 1..Len(d) : d[i].k = k

DictGet(d, k) == d[CHOOSE i \in 1..Len(d) : d[i].k = k].v

\* d[k] = v: an existing key keeps its place
DictSet(d, k, v) ==
    IF DictHas(d, k)
    THEN [i \in 1..Len(d) |-> IF d[i].k = k THEN [k |-> k, v |-> v] ELSE d[i]]
    ELSE Append(d, [k |-> k, v |-> v])

(***************************************************************************)
(* json_parser.py: FieldType, FieldInfo, ConfigData.                       *)
(***************************************************************************)
FieldType == {"string", "integer", "float", "boolean", "array", "object"}

\* FieldInfo.__init__; line_number is the attribute the INI parser adds
\* (-1: the object has no such attribute)
FieldInfo(path, value, description, field_type, category, line_number) ==
    [path |-> path, value |-> value, description |-> description,
     type |-> field_type,
     category |-> category, original_value |-> value,
     line_number |-> line_number]

\* ConfigData: fields is the OrderedDict path -> FieldInfo
ConfigData(fields, raw_lines) == [fields |-> fields, raw_lines |-> raw_lines]

\* path in config_data.fields
HasField(config, path) == DictHas(config.fields, path)

(***************************************************************************)
(* ini_parser.py: IniParser.                                               *)
(***************************************************************************)
Slashes == <<"/", "/">>

\* the parts of a parenthesised tuple, split at the commas
RECURSIVE SplitCommas(_)
SplitCommas(s) ==
    LET i == Find(s, <<",">>)
    IN  IF i = 0 THEN <<s>>
        ELSE <<Upto(s, i)>> \o SplitCommas(From(s, i + 1))

\* one part of a tuple: float(part), or the part itself
TuplePart(part) ==
    IF ParseFloat(part).ok THEN ParseFloat(part).v ELSE PyStr(part)

\* IniParser._parse_ini_value
_parse_ini_value(value_str0) ==
    LET value_str == Strip(value_str0)
        low == Lower(value_str)
        parts == SplitCommas(SubSeq(value_str, 2, Len(value_str) - 1))
    IN  IF low \in {<<"t", "r", "u", "e">>, <<"o", "n">>, <<"y", "e", "s">>, <<"1">>}
        THEN PyBool(TRUE)
        ELSE IF low \in {<<"f", "a", "l", "s", "e">>, <<"o", "f", "f">>,
                         <<"n", "o">>, <<"0">>}
        THEN PyBool(FALSE)
        ELSE IF ~Contains(value_str, <<".">>) /\ ParseInt(value_str).ok
        THEN PyInt(ParseInt(value_str).n)
        ELSE IF Contains(value_str, <<".">>) /\ ParseFloat(value_str).ok
        THEN ParseFloat(value_str).v
        ELSE IF StartsWith(value_str, <<"(">>) /\ EndsWith(value_str, <<")">>)
        THEN PyTuple([i \in 1..Len(parts) |-> TuplePart(Strip(parts[i]))])
        ELSE PyStr(value_str)

\* re.match(r"^\[([^\]]+)\]", line): [found, name]
SectionMatch(line) ==
    LET j == Find(line, <<"]">>)
    IN  IF StartsWith(line, <<"[">>) /\ j >= 3
        THEN [found |-> TRUE, name |-> SubSeq(line, 2, j - 1)]
        ELSE [found |-> FALSE, name |-> <<>>]

\* one line of parse_with_comments; st is [data, has_section, section, raised]
IniParseLine(st, original_line, line_number) ==
    LET line == Strip(original_line)
        sm == SectionMatch(line)
        cpos == Find(line, Slashes)
        line2 == IF cpos > 0 THEN Strip(Upto(line, cpos)) ELSE line
        epos == Find(line2, <<"=">>)
        key == Strip(Upto(line2, epos))
        value == Strip(From(line2, epos + 1))
        entry == [value |-> _parse_ini_value(value),
                  comment |-> IF cpos > 0
                              THEN Strip(From(line, cpos + Len(Slashes)))
                              ELSE <<>>,
                  line_number |-> line_number]
        sect == IF DictHas(st.data, st.section)
                THEN DictGet(st.data, st.section) ELSE <<>>
    IN  IF line = <<>> \/ StartsWith(line, Slashes) THEN st
        ELSE IF sm.found
        THEN [st EXCEPT !.has_section = TRUE, !.section = sm.name,
                        !.data = IF DictHas(st.data, sm.name) THEN st.data
                                 ELSE DictSet(st.data, sm.name, <<>>)]
        ELSE IF Contains(line, <<"=">>) /\ st.has_section
        THEN IF epos = 0
             \* key, value = line.split("=", 1) raises ValueError
             THEN [st EXCEPT !.raised = TRUE]
             ELSE [st EXCEPT !.data =
                      DictSet(st.data, st.section, DictSet(sect, key, entry))]
        ELSE st

\* IniParser.parse_with_comments, from line i on (1-based; line_number is
\* the 0-based index enumerate() gives)
RECURSIVE parse_with_comments_from(_, _, _)
parse_with_comments_from(lines, i, st) ==
    IF i > Len(lines) \/ st.raised THEN st
    ELSE parse_with_comments_from(lines, i + 1,
                                  IniParseLine(st, lines[i], i - 1))

\* IniParser.parse_with_comments: [data, raised]
parse_with_comments(lines) ==
    parse_with_comments_from(lines, 1,
        [data |-> <<>>, has_section |-> FALSE, section |-> <<>>,
         raised |-> FALSE])

\* IniParser._determine_field_type
_determine_field_type(value) ==
    CASE value.t = "bool" -> "boolean"
      [] value.t = "int" -> "integer"
      [] value.t = "float" -> "float"
      [] value.t = "tuple" -> "array"
      [] OTHER -> "string"

\* the fields of one section, added to fields
RECURSIVE IniSectionFields(_, _, _, _)
IniSectionFields(fields, section_name, section_data, i) ==
    IF i > Len(section_data) THEN fields
    ELSE LET key == section_data[i].k
             value_info == section_data[i].v
             field_path == section_name \o <<".">> \o key
         IN  IniSectionFields(
                 DictSet(fields, field_path,
                         FieldInfo(field_path, value_info.value,
                                   value_info.comment,
                                   _determine_field_type(value_info.value),
                                   section_name, value_info.line_number)),
                 section_name, section_data, i + 1)

\* IniParser._build_field_info
RECURSIVE _build_field_info_from(_, _, _)
_build_field_info_from(fields, parsed_data, i) ==
    IF i > Len(parsed_data) THEN fields
    ELSE _build_field_info_from(
             IniSectionFields(fields, parsed_data[i].k, parsed_data[i].v, 1),
             parsed_data, i + 1)

_build_field_info(parsed_data) == _build_field_info_from(<<>>, parsed_data, 1)

\* IniParser.parse_file on the lines read: [raised, config]
ini_parse_file(lines) ==
    LET parsed == parse_with_comments(lines)
    IN  [raised |-> parsed.raised,
         config |-> ConfigData(_build_field_info(parsed.data), lines)]

\* f"{v:.3f}" of a float in tenths
Float3f(n) ==
    LET a == IF n < 0 THEN -n ELSE n
    IN  (IF n < 0 THEN <<"-">> ELSE <<>>)
            \o NatToStr(a \div 10) \o <<".">> \o NatToStr(a % 10) \o <<"0", "0">>

\* ", ".join of the formatted parts of a tuple
RECURSIVE JoinTuple(_)
JoinTuple(e) ==
    IF e = <<>> THEN <<>>
    ELSE (IF IsFloat(Head(e)) /\ IsFinite(Head(e)) THEN Float3f(Head(e).n)
          ELSE PyStrOf(Head(e)))
             \o (IF Len(e) > 1 THEN <<",", " ">> ELSE <<>>)
             \o JoinTuple(Tail(e))

\* IniParser._format_value_for_ini
_format_value_for_ini(value, field_type) ==
    IF field_type = "boolean"
    THEN IF Truthy(value) THEN <<"1">> ELSE <<"0">>
    ELSE IF field_type = "array" /\ value.t = "tuple"
    THEN <<"(">> \o JoinTuple(value.e) \o <<")">>
    ELSE PyStrOf(value)

\* the lookup had it taken the last field whose path ends with suffix
FirstFieldEndingWith_Last(fields, suffix) ==
    IF \E i \in 1..Len(fields) : EndsWith(fields[i].k, suffix)
    THEN CHOOSE i \in 1..Len(fields) :
             /\ EndsWith(fields[i].k, suffix)
             /\ \A j \in (i + 1)..Len(fields) : ~EndsWith(fields[j].k, suffix)
    ELSE 0

\* the first field, in field-table order, whose path ends with suffix:
\* its index, 0 when there is none
FirstFieldEndingWith(fields, suffix) ==
    IF \E i \in 1..Len(fields) : EndsWith(fields[i].k, suffix)
    THEN CHOOSE i \in 1..Len(fields) :
             /\ EndsWith(fields[i].k, suffix)
             /\ \A j \in 1..(i - 1) : ~EndsWith(fields[j].k, suffix)
    ELSE 0

\* the body of the loop of IniParser.write_preserving_structure: the
\* line written for one raw line
IniWriteLine(config_data, line) ==
    LET line_stripped == Strip(line)
        epos == Find(line_stripped, <<"=">>)
        key == Strip(Upto(line_stripped, epos))
        idx == FirstFieldEndingWith(config_data.fields, <<".">> \o key)
        field_info == config_data.fields[idx].v
        new_value == _format_value_for_ini(field_info.value, field_info.type)
        cpos == Find(line, Slashes)
    IN  IF \/ line_stripped = <<>>
           \/ StartsWith(line_stripped, Slashes)
           \/ StartsWith(line_stripped, <<"[">>)
        THEN line
        ELSE IF /\ epos >= 2
                /\ idx > 0
                /\ field_info.line_number >= 0
                /\ ~PyEq(field_info.value, field_info.original_value)
        THEN IF cpos > 0
             THEN key \o <<"=">> \o new_value \o <<" ", "/", "/">>
                      \o From(line, cpos + 2)
             ELSE key \o <<"=">> \o new_value \o <<NL>>
        ELSE line

\* IniParser.write_preserving_structure: the lines handed to writelines()
ini_write_preserving_structure(config_data) ==
    [i \in 1..Len(config_data.raw_lines) |->
        IniWriteLine(config_data, config_data.raw_lines[i])]

(***************************************************************************)
(* json_parser.py: JsonWithCommentsParser, reading.                        *)
(***************************************************************************)
\* the character at i, "" past the end
CharAt(t, i) == IF i >= 1 /\ i <= Len(t) THEN t[i] ELSE ""

\* the scan of _remove_comments for a // outside a string, from j on
\* (1-based): the position of the comment, 0 when there is none
RECURSIVE CommentPos(_, _, _, _)
CommentPos(line, j, in_string, escape_next) ==
    IF j > Len(line) THEN 0
    ELSE IF escape_next THEN CommentPos(line, j + 1, in_string, FALSE)
    ELSE IF line[j] = BSL THEN CommentPos(line, j + 1, in_string, TRUE)
    ELSE IF line[j] = DQ THEN CommentPos(line, j + 1, ~in_string, FALSE)
    ELSE IF ~in_string /\ line[j] = "/" /\ CharAt(line, j + 1) = "/" THEN j
    ELSE CommentPos(line, j + 1, in_string, FALSE)

\* the end of (?:\\.|[^"\\])* from i on: the position of the closing
\* quote, 0 when the string is not closed
RECURSIVE StringEnd(_, _)
StringEnd(t, i) ==
    IF i > Len(t) THEN 0
    ELSE IF t[i] = DQ THEN i
    ELSE IF t[i] = BSL
         THEN IF i + 1 > Len(t) \/ t[i + 1] = NL THEN 0 ELSE StringEnd(t, i + 2)
    ELSE StringEnd(t, i + 1)

\* the first position from i on that holds no whitespace
RECURSIVE SkipWs(_, _)
SkipWs(t, i) == IF i <= Len(t) /\ IsSpace(t[i]) THEN SkipWs(t, i + 1) ELSE i

\* re.match(r'^\s*"[^"]+#":\s*"(?:\\.|[^"\\])*"[,]?\s*$', line)
IsDescriptionLine(line) ==
    LET a == SkipWs(line, 1)
        b == Find(From(line, a + 1), <<DQ>>) + a
        c == SkipWs(line, b + 2)
        d == StringEnd(line, c + 1)
        rest == From(line, d + 1)
        tail == IF rest # <<>> /\ Head(rest) = "," THEN Tail(rest) ELSE rest
    IN  /\ CharAt(line, a) = DQ
        /\ b >= a + 3
        /\ line[b - 1] = "#"
        /\ CharAt(line, b + 1) = ":"
        /\ CharAt(line, c) = DQ
        /\ d > 0
        /\ \/ Strip(tail) = <<>>
           \* $ also matches before one final newline
           \/ tail = <<NL>>

SQ == "'"

\* re.search(r'"([^"]+)":', line) tried at position i: [found, key]
KeyMatchAt(line, i) ==
    LET j == Find(From(line, i + 1), <<DQ>>) + i
    IN  IF CharAt(line, i) = DQ /\ j >= i + 2 /\ CharAt(line, j + 1) = ":"
        THEN [found |-> TRUE, key |-> SubSeq(line, i + 1, j - 1)]
        ELSE [found |-> FALSE, key |-> <<>>]

\* re.search(r'"([^"]+)":', line): the leftmost match
KeyMatch(line) ==
    IF \E i \in 1..Len(line) : KeyMatchAt(line, i).found
    THEN KeyMatchAt(line,
             CHOOSE i \in 1..Len(line) :
                 /\ KeyMatchAt(line, i).found
                 /\ \A h \in 1..(i - 1) : ~KeyMatchAt(line, h).found)
    ELSE [found |-> FALSE, key |-> <<>>]

\* the first position from i on that holds neither a colon nor whitespace
RECURSIVE SkipColonWs(_, _)
SkipColonWs(t, i) ==
    IF i <= Len(t) /\ (t[i] = ":" \/ IsSpace(t[i])) THEN SkipColonWs(t, i + 1)
    ELSE i

\* the end of (?:\\.|[^"'])* from i on: the position after it
RECURSIVE LooseEnd(_, _)
LooseEnd(t, i) ==
    IF i > Len(t) THEN i
    ELSE IF t[i] = BSL /\ i + 1 <= Len(t) /\ t[i + 1] # NL
    THEN LooseEnd(t, i + 2)
    ELSE IF t[i] \in {DQ, SQ} THEN i
    ELSE LooseEnd(t, i + 1)

\* group desc of re.search(r'#[:\s]*["\']?(?P<desc>(?:\\.|[^"\'])*)["\']?',
\* line), for a line that holds a #
InlineDesc(line) ==
    LET h == Find(line, <<"#">>)
        k == SkipColonWs(line, h + 1)
        q == IF CharAt(line, k) \in {DQ, SQ} THEN k + 1 ELSE k
    IN  SubSeq(line, q, LooseEnd(line, q) - 1)

\* .replace('\\"', '"').replace("\\'", "'").replace("\\\\", "\\")
UnescapeDescription(raw) ==
    Replace(Replace(Replace(raw, <<BSL, DQ>>, <<DQ>>), <<BSL, SQ>>, <<SQ>>),
            <<BSL, BSL>>, <<BSL>>)

\* r'"([^"]+)#":\s*"(?P<desc>(?:\\.|[^"\\])*)"' tried at position i:
\* [found, key, desc]
ShadowMatchAt(line, i) ==
    LET j == Find(From(line, i + 1), <<DQ>>) + i
        c == SkipWs(line, j + 2)
        d == StringEnd(line, c + 1)
    IN  IF /\ CharAt(line, i) = DQ
           /\ j >= i + 3
           /\ line[j - 1] = "#"
           /\ CharAt(line, j + 1) = ":"
           /\ CharAt(line, c) = DQ
           /\ d > 0
        THEN [found |-> TRUE, key |-> SubSeq(line, i + 1, j - 2),
              desc |-> SubSeq(line, c + 1, d - 1)]
        ELSE [found |-> FALSE, key |-> <<>>, desc |-> <<>>]

\* re.search of that pattern: the leftmost match
ShadowMatch(line) ==
    IF \E i \in 1..Len(line) : ShadowMatchAt(line, i).found
    THEN ShadowMatchAt(line,
             CHOOSE i \in 1..Len(line) :
                 /\ ShadowMatchAt(line, i).found
                 /\ \A h \in 1..(i - 1) : ~ShadowMatchAt(line, h).found)
    ELSE [found |-> FALSE, key |-> <<>>, desc |-> <<>>]

\* one line of extract_descriptions: the inline comment description, then
\* the dedicated description line
DescribeLine(descriptions, raw_line) ==
    LET line == Strip(raw_line)
        inline == IF /\ Contains(line, Slashes) /\ Contains(line, <<"#">>)
                     /\ KeyMatch(line).found
                  THEN DictSet(descriptions, KeyMatch(line).key,
                               UnescapeDescription(Strip(InlineDesc(line))))
                  ELSE descriptions
    IN  IF /\ Contains(line, <<"#", DQ, ":">>) /\ ~Contains(line, Slashes)
           /\ ShadowMatch(line).found
        THEN DictSet(inline, ShadowMatch(line).key,
                     UnescapeDescription(ShadowMatch(line).desc))
        ELSE inline

\* JsonWithCommentsParser.extract_descriptions, from line i on
RECURSIVE extract_descriptions_from(_, _, _)
extract_descriptions_from(lines, i, descriptions) ==
    IF i > Len(lines) THEN descriptions
    ELSE extract_descriptions_from(lines, i + 1,
                                   DescribeLine(descriptions, lines[i]))

\* JsonWithCommentsParser.extract_descriptions
extract_descriptions(lines) == extract_descriptions_from(lines, 1, <<>>)

\* one line of _remove_comments, with its comment cut off
UncommentedLine(line) ==
    LET comment_pos == CommentPos(line, 1, FALSE, FALSE)
    IN  IF Contains(line, Slashes) /\ comment_pos > 0
        THEN RStrip(Upto(line, comment_pos))
        ELSE line

\* the lines _remove_comments keeps
RECURSIVE CleanLines(_)
CleanLines(lines) ==
    IF lines = <<>> THEN <<>>
    ELSE LET line == UncommentedLine(Head(lines))
         IN  (IF IsDescriptionLine(Strip(line)) THEN <<>> ELSE <<line>>)
                 \o CleanLines(Tail(lines))

\* re.sub(r",(\s*[}\]])", r"\1", text): the commas it drops are those
\* followed, after whitespace, by a closing brace or bracket
DropTrailingCommas(t) ==
    LET Kept(i) == ~(t[i] = "," /\ CharAt(t, SkipWs(t, i + 1)) \in {"}", "]"})
        kept == SelectSeq([i \in 1..Len(t) |-> i], Kept)
    IN  [k \in 1..Len(kept) |-> t[kept[k]]]

\* JsonWithCommentsParser._remove_comments
_remove_comments(lines) == DropTrailingCommas(Join(CleanLines(lines)))

(***************************************************************************)
(* json.loads(text, object_pairs_hook=OrderedDict): a result is            *)
(* [ok, v, pos], pos the position after the value; not ok is               *)
(* JSONDecodeError.  An object is a value of type "dict" whose e is the    *)
(* OrderedDict of its members, an array one of type "list".                *)
(***************************************************************************)
JsonFail == [ok |-> FALSE, v |-> PyNone, pos |-> 0]

JsonOk(v, pos) == [ok |-> TRUE, v |-> v, pos |-> pos]

\* the character an escape stands for
Unescape(c) ==
    CASE c = "n" -> NL
      [] c = "t" -> "\t"
      [] c = "r" -> "\r"
      [] OTHER -> c

\* a string body from i on, acc the characters read: [ok, s, pos]
RECURSIVE JsonString(_, _, _)
JsonString(t, i, acc) ==
    IF i > Len(t) \/ t[i] = NL THEN [ok |-> FALSE, s |-> <<>>, pos |-> 0]
    ELSE IF t[i] = DQ THEN [ok |-> TRUE, s |-> acc, pos |-> i + 1]
    ELSE IF t[i] = BSL
         THEN IF CharAt(t, i + 1) \in {DQ, BSL, "/", "n", "t", "r"}
              THEN JsonString(t, i + 2, Append(acc, Unescape(t[i + 1])))
              ELSE [ok |-> FALSE, s |-> <<>>, pos |-> 0]
    ELSE JsonString(t, i + 1, Append(acc, t[i]))

\* the end of a run of digits from i on
RECURSIVE DigitsEnd(_, _)
DigitsEnd(t, i) == IF IsDigit(CharAt(t, i)) THEN DigitsEnd(t, i + 1) ELSE i

\* a number at i: -?(0|[1-9]\d*)(\.\d+)?
JsonNumber(t, i) ==
    LET neg == CharAt(t, i) = "-"
        a == IF neg THEN i + 1 ELSE i
        b == IF CharAt(t, a) = "0" THEN a + 1 ELSE DigitsEnd(t, a)
        frac == CharAt(t, b) = "." /\ IsDigit(CharAt(t, b + 1))
        c == DigitsEnd(t, b + 1)
        ip == DigitsVal(SubSeq(t, a, b - 1))
        sign == IF neg THEN -1 ELSE 1
    IN  IF b = a THEN JsonFail
        ELSE IF ~frac THEN JsonOk(PyInt(sign * ip), b)
        ELSE IF c = b + 2
        THEN JsonOk(PyFloat(sign * (ip * 10 + DigitVal(t[b + 1]))), c)
        ELSE JsonFail

RECURSIVE JsonValue(_, _)
RECURSIVE JsonMembers(_, _, _)
RECURSIVE JsonElements(_, _, _)

\* the members of an object, the next key expected at i
JsonMembers(t, i, acc) ==
    LET a == SkipWs(t, i)
        key == JsonString(t, a + 1, <<>>)
        b == SkipWs(t, key.pos)
        val == JsonValue(t, b + 1)
        c == SkipWs(t, val.pos)
        members == DictSet(acc, key.s, val.v)
    IN  IF CharAt(t, a) # DQ \/ ~key.ok \/ CharAt(t, b) # ":" \/ ~val.ok
        THEN JsonFail
        ELSE IF CharAt(t, c) = "}"
        THEN JsonOk(Val("dict", 0, <<>>, members), c + 1)
        ELSE IF CharAt(t, c) = ","
        THEN JsonMembers(t, c + 1, members)
        ELSE JsonFail

\* the elements of an array, the next value expected at i
JsonElements(t, i, acc) ==
    LET val == JsonValue(t, i)
        c == SkipWs(t, val.pos)
    IN  IF ~val.ok THEN JsonFail
        ELSE IF CharAt(t, c) = "]"
        THEN JsonOk(Val("list", 0, <<>>, Append(acc, val.v)), c + 1)
        ELSE IF CharAt(t, c) = ","
        THEN JsonElements(t, c + 1, Append(acc, val.v))
        ELSE JsonFail

\* a value at i, after whitespace
JsonValue(t, i) ==
    LET a == SkipWs(t, i)
        c == CharAt(t, a)
        str == JsonString(t, a + 1, <<>>)
    IN  IF c = "{"
        THEN IF CharAt(t, SkipWs(t, a + 1)) = "}"
             THEN JsonOk(Val("dict", 0, <<>>, <<>>), SkipWs(t, a + 1) + 1)
             ELSE JsonMembers(t, a + 1, <<>>)
        ELSE IF c = "["
        THEN IF CharAt(t, SkipWs(t, a + 1)) = "]"
             THEN JsonOk(Val("list", 0, <<>>, <<>>), SkipWs(t, a + 1) + 1)
             ELSE JsonElements(t, a + 1, <<>>)
        ELSE IF c = DQ
        THEN IF str.ok THEN JsonOk(PyStr(str.s), str.pos) ELSE JsonFail
        ELSE IF MatchAt(t, <<"t", "r", "u", "e">>, a)
        THEN JsonOk(PyBool(TRUE), a + 4)
        ELSE IF MatchAt(t, <<"f", "a", "l", "s", "e">>, a)
        THEN JsonOk(PyBool(FALSE), a + 5)
        ELSE IF MatchAt(t, <<"n", "u", "l", "l">>, a)
        THEN JsonOk(PyNone, a + 4)
        ELSE IF c = "-" \/ IsDigit(c) THEN JsonNumber(t, a)
        ELSE JsonFail

\* json.loads: [ok, v]
json_loads(text) ==
    LET r == JsonValue(text, 1)
    IN  IF r.ok /\ SkipWs(text, r.pos) > Len(text)
        THEN [ok |-> TRUE, v |-> r.v]
        ELSE [ok |-> FALSE, v |-> PyNone]

\* JsonWithCommentsParser.preserve_types
preserve_types(value) ==
    CASE value.t = "bool" -> "boolean"
      [] value.t = "int" -> "integer"
      [] value.t = "float" -> "float"
      [] value.t = "list" -> "array"
      [] value.t = "dict" -> "object"
      [] OTHER -> "string"

General == <<"G", "e", "n", "e", "r", "a", "l">>

\* the inner loop had it stored the nested fields with the category they
\* were built with
RECURSIVE AdoptNested_KeepsCategory(_, _, _, _)
AdoptNested_KeepsCategory(fields, nested_fields, category, i) ==
    IF i > Len(nested_fields) THEN fields
    ELSE AdoptNested_KeepsCategory(
             DictSet(fields, nested_fields[i].k, nested_fields[i].v),
             nested_fields, category, i + 1)

\* the inner loop had it left alone the category of the fields adopted
\* at a deeper level, so that the nearest enclosing key stays
RECURSIVE AdoptNested_NearestKey(_, _, _, _)
AdoptNested_NearestKey(fields, nested_fields, category, i) ==
    IF i > Len(nested_fields) THEN fields
    ELSE AdoptNested_NearestKey(
             DictSet(fields, nested_fields[i].k,
                     IF \/ nested_fields[i].v.category = category
                        \/ EndsWith(nested_fields[i].v.category,
                                    <<".">> \o category)
                     THEN [nested_fields[i].v EXCEPT !.category = category]
                     ELSE nested_fields[i].v),
             nested_fields, category, i + 1)

\* the inner loop of build_field_hierarchy: the nested fields, each given
\* category, stored into fields
RECURSIVE AdoptNested(_, _, _, _)
AdoptNested(fields, nested_fields, category, i) ==
    IF i > Len(nested_fields) THEN fields
    ELSE AdoptNested(
             DictSet(fields, nested_fields[i].k,
                     [nested_fields[i].v EXCEPT !.category = category]),
             nested_fields, category, i + 1)

\* JsonWithCommentsParser.build_field_hierarchy, from member i of data on
RECURSIVE build_field_hierarchy_from(_, _, _, _, _)
build_field_hierarchy_from(members, descriptions, parent_path, i, fields) ==
    IF i > Len(members) THEN fields
    ELSE LET key == members[i].k
             value == members[i].v
             current_path == IF parent_path # <<>>
                             THEN parent_path \o <<".">> \o key ELSE key
             nested_fields ==
                 build_field_hierarchy_from(value.e, descriptions,
                                            current_path, 1, <<>>)
             \* descriptions.get(key, "") or descriptions.get(current_path, "")
             description ==
                 IF DictHas(descriptions, key) /\ DictGet(descriptions, key) # <<>>
                 THEN DictGet(descriptions, key)
                 ELSE IF DictHas(descriptions, current_path)
                 THEN DictGet(descriptions, current_path)
                 ELSE <<>>
             field_info ==
                 FieldInfo(current_path, value, description,
                           preserve_types(value),
                           IF parent_path # <<>> THEN parent_path ELSE General,
                           -1)
         IN  build_field_hierarchy_from(members, descriptions, parent_path,
                 i + 1,
                 IF value.t = "dict"
                 THEN AdoptNested(fields, nested_fields, key, 1)
                 ELSE DictSet(fields, current_path, field_info))

\* JsonWithCommentsParser.build_field_hierarchy
build_field_hierarchy(data, descriptions, parent_path) ==
    build_field_hierarchy_from(data.e, descriptions, parent_path, 1, <<>>)

\* JsonWithCommentsParser.parse_file on the lines read: [raised, config];
\* json.loads raises on malformed text, and data.items() on a document
\* that is no object
json_parse_file(lines) ==
    LET json_data == json_loads(_remove_comments(lines))
    IN  IF json_data.ok /\ json_data.v.t = "dict"
        THEN [raised |-> FALSE,
              config |-> ConfigData(build_field_hierarchy(
                                        json_data.v,
                                        extract_descriptions(lines), <<>>),
                                    lines)]
        ELSE [raised |-> TRUE, config |-> ConfigData(<<>>, lines)]

(***************************************************************************)
(* json_parser.py: JsonWithCommentsParser, writing.                        *)
(***************************************************************************)
\* the end of [^,}]+ from i on
RECURSIVE ValueEnd(_, _)
ValueEnd(line, i) ==
    IF i <= Len(line) /\ line[i] \notin {",", "}"} THEN ValueEnd(line, i + 1)
    ELSE i

\* "([^"]+)":\s*([^,}]+) tried at position i: [found, key, value]
FieldMatchAt(line, i) ==
    LET j == Find(From(line, i + 1), <<DQ>>) + i
        k == j + 2
        w == SkipWs(line, k)
        \* \s* gives one character back when nothing else is left for group 2
        v == IF ValueEnd(line, w) > w THEN w ELSE w - 1
    IN  IF /\ CharAt(line, i) = DQ
           /\ j >= i + 2
           /\ CharAt(line, j + 1) = ":"
           /\ v >= k
           /\ ValueEnd(line, v) > v
        THEN [found |-> TRUE, key |-> SubSeq(line, i + 1, j - 1),
              value |-> SubSeq(line, v, ValueEnd(line, v) - 1)]
        ELSE [found |-> FALSE, key |-> <<>>, value |-> <<>>]

\* re.search(r'"([^"]+)":\s*([^,}]+)', line): the leftmost match
FieldMatch(line) ==
    IF \E i \in 1..Len(line) : FieldMatchAt(line, i).found
    THEN FieldMatchAt(line,
             CHOOSE i \in 1..Len(line) :
                 /\ FieldMatchAt(line, i).found
                 /\ \A h \in 1..(i - 1) : ~FieldMatchAt(line, h).found)
    ELSE [found |-> FALSE, key |-> <<>>, value |-> <<>>]

\* json.dumps of a str
RECURSIVE JsonEscape(_)
JsonEscape(s) ==
    IF s = <<>> THEN <<>>
    ELSE (CASE Head(s) = DQ -> <<BSL, DQ>>
            [] Head(s) = BSL -> <<BSL, BSL>>
            [] Head(s) = NL -> <<BSL, "n">>
            [] OTHER -> <<Head(s)>>) \o JsonEscape(Tail(s))

\* json.dumps(value)
RECURSIVE json_dumps(_)
RECURSIVE JsonDumpsItems(_)
JsonDumpsItems(e) ==
    IF e = <<>> THEN <<>>
    ELSE json_dumps(Head(e)) \o (IF Len(e) > 1 THEN <<",", " ">> ELSE <<>>)
             \o JsonDumpsItems(Tail(e))

json_dumps(value) ==
    CASE value.t = "str" -> <<DQ>> \o JsonEscape(value.s) \o <<DQ>>
      [] value.t = "bool" -> IF value.n = 1 THEN <<"t", "r", "u", "e">>
                             ELSE <<"f", "a", "l", "s", "e">>
      [] value.t \in {"int", "float"} /\ IsFinite(value) -> PyStrOf(value)
      [] value.t = "float" /\ value = PyNaN -> <<"N", "a", "N">>
      [] value.t = "float" ->
             (IF value.n < 0 THEN <<"-">> ELSE <<>>)
                 \o <<"I", "n", "f", "i", "n", "i", "t", "y">>
      [] value.t \in {"list", "tuple"} -> <<"[">> \o JsonDumpsItems(value.e) \o <<"]">>
      [] OTHER -> <<"n", "u", "l", "l">>

\* JsonWithCommentsParser._format_value_for_json
_format_value_for_json(value, field_type) ==
    IF field_type = "string" THEN <<DQ>> \o PyStrOf(value) \o <<DQ>>
    ELSE IF field_type = "boolean"
    THEN IF Truthy(value) THEN <<"t", "r", "u", "e">>
         ELSE <<"f", "a", "l", "s", "e">>
    ELSE IF field_type \in {"integer", "float"} THEN PyStrOf(value)
    ELSE json_dumps(value)

\* the first field, in field-table order, whose path ends with field_name
\* (a path equal to field_name ends with it): its index, 0 when none
JsonFieldFor(fields, field_name) == FirstFieldEndingWith(fields, field_name)

\* the loop body had it patched every line whose key resolves to a field,
\* changed or not
JsonWriteLine_PatchesClean(config_data, line) ==
    LET field_match == FieldMatch(line)
        idx == JsonFieldFor(config_data.fields, field_match.key)
        field_info == config_data.fields[idx].v
        new_value == _format_value_for_json(field_info.value, field_info.type)
    IN  IF field_match.found /\ idx > 0
        THEN Replace(line, field_match.value, new_value)
        ELSE line

\* the body of the loop of JsonWithCommentsParser.write_preserving_structure
JsonWriteLine(config_data, line) ==
    LET field_match == FieldMatch(line)
        idx == JsonFieldFor(config_data.fields, field_match.key)
        field_info == config_data.fields[idx].v
        new_value == _format_value_for_json(field_info.value, field_info.type)
    IN  IF /\ field_match.found
           /\ idx > 0
           /\ ~PyEq(field_info.value, field_info.original_value)
        THEN Replace(line, field_match.value, new_value)
        ELSE line

\* JsonWithCommentsParser.write_preserving_structure: the lines handed to
\* writelines()
json_write_preserving_structure(config_data) ==
    [i \in 1..Len(config_data.raw_lines) |->
        JsonWriteLine(config_data, config_data.raw_lines[i])]

(***************************************************************************)
(* field_state.py: FieldState.                                             *)
(***************************************************************************)
\* FieldState.__init__
FieldState(original_value) ==
    [original_value |-> original_value,
     current_value |-> original_value,
     is_modified |-> FALSE,
     modification_time |-> "None",
     validation_errors |-> <<>>,
     validation_warnings |-> <<>>,
     validation_state |-> "valid"]

\* FieldState.set_value: [fs, ret]
FieldState_set_value(fs, new_value) ==
    IF PyEq(new_value, fs.current_value)
    THEN [fs |-> fs, ret |-> FALSE]
    ELSE [fs |-> [fs EXCEPT
                    !.current_value = new_value,
                    !.is_modified = ~PyEq(new_value, fs.original_value),
                    !.modification_time =
                        IF ~PyEq(new_value, fs.original_value)
                        THEN "now" ELSE "None",
                    !.validation_errors = <<>>,
                    !.validation_warnings = <<>>,
                    !.validation_state = "valid"],
          ret |-> TRUE]

\* FieldState.revert: [fs, ret]
FieldState_revert(fs) ==
    IF ~fs.is_modified
    THEN [fs |-> fs, ret |-> FALSE]
    ELSE [fs |-> [fs EXCEPT
                    !.current_value = fs.original_value,
                    !.is_modified = FALSE,
                    !.modification_time = "None",
                    !.validation_errors = <<>>,
                    !.validation_warnings = <<>>,
                    !.validation_state = "valid"],
          ret |-> TRUE]

\* FieldState.apply_changes had it left is_modified as it was
FieldState_apply_changes_KeepsFlag(fs) ==
    [fs EXCEPT !.original_value = fs.current_value,
               !.modification_time = "None"]

\* FieldState.apply_changes
FieldState_apply_changes(fs) ==
    [fs EXCEPT !.original_value = fs.current_value,
               !.is_modified = FALSE,
               !.modification_time = "None"]

\* FieldState.add_validation_error
FieldState_add_validation_error(fs, error) ==
    IF \E i \in 1..Len(fs.validation_errors) : fs.validation_errors[i] = error
    THEN fs
    ELSE [fs EXCEPT !.validation_errors = Append(@, error),
                    !.validation_state = "error"]

\* add_validation_warning had it set the state to warning whatever it was
FieldState_add_validation_warning_Downgrades(fs, warning) ==
    IF \E i \in 1..Len(fs.validation_warnings) :
           fs.validation_warnings[i] = warning
    THEN fs
    ELSE [fs EXCEPT !.validation_warnings = Append(@, warning),
                    !.validation_state = "warning"]

\* FieldState.add_validation_warning
FieldState_add_validation_warning(fs, warning) ==
    IF \E i \in 1..Len(fs.validation_warnings) :
           fs.validation_warnings[i] = warning
    THEN fs
    ELSE [fs EXCEPT !.validation_warnings = Append(@, warning),
                    !.validation_state =
                        IF @ = "valid" THEN "warning" ELSE @]

\* FieldState.clear_validation
FieldState_clear_validation(fs) ==
    [fs EXCEPT !.validation_errors = <<>>,
               !.validation_warnings = <<>>,
               !.validation_state = "valid"]

(***************************************************************************)
(* The files: two settings files and one Config_DX11.ini, as the lines     *)
(* handed to writelines(); "jx" and "ix" are paths of no file.             *)
(***************************************************************************)
\* settings.json: two sections with the same key, one line with a comment
JsonFile1 ==
    <<<<"{", NL>>,
      <<DQ, "G", DQ, ":", " ", "{", NL>>,
      <<DQ, "Q", DQ, ":", " ", "2", ",", " ", "/", "/", " ", "c", NL>>,
      <<DQ, "W", DQ, ":", " ", "t", "r", "u", "e", NL>>,
      <<"}", ",", NL>>,
      <<DQ, "S", DQ, ":", " ", "{", NL>>,
      <<DQ, "Q", DQ, ":", " ", "0", NL>>,
      <<"}", NL>>,
      <<"}", NL>>>>

\* another settings.json, with fewer fields and another value
JsonFile2 ==
    <<<<"{", NL>>,
      <<DQ, "G", DQ, ":", " ", "{", NL>>,
      <<DQ, "Q", DQ, ":", " ", "0", NL>>,
      <<"}", NL>>,
      <<"}", NL>>>>

\* a settings.json whose section is named ini: its field ini.A.x has the
\* key the model gives the field A.x of Config_DX11.ini
JsonFile3 ==
    <<<<"{", NL>>,
      <<DQ, "i", "n", "i", DQ, ":", " ", "{", NL>>,
      <<DQ, "A", DQ, ":", " ", "{", NL>>,
      <<DQ, "x", DQ, ":", " ", "5", NL>>,
      <<"}", NL>>,
      <<"}", NL>>,
      <<"}", NL>>>>

\* Config_DX11.ini: two sections with the same key
IniFile1 ==
    <<<<"[", "A", "]", NL>>,
      <<"x", "=", "2", " ", "/", "/", " ", "c", NL>>,
      <<"[", "B", "]", NL>>,
      <<"x", "=", "2", ".", "0", NL>>>>

\* a settings.json nested three deep, with a shadow description entry,
\* a key that holds its own value's digit and closing members without comma
CodecJson3 ==
    <<<<"{", NL>>,
      <<DQ, "G", DQ, ":", " ", "{", NL>>,
      <<DQ, "Y", "#", DQ, ":", " ", DQ, "t", "h", "e", " ", BSL, DQ, "y", "a", "w", BSL, DQ, DQ, ",", NL>>,
      <<DQ, "Y", DQ, ":", " ", "1", ".", "5", ",", " ", "/", "/", " ", "c", NL>>,
      <<DQ, "H", DQ, ":", " ", "{", NL>>,
      <<DQ, "K", DQ, ":", " ", "{", NL>>,
      <<DQ, "A", "1", DQ, ":", " ", "1", ",", NL>>,
      <<DQ, "B", DQ, ":", " ", DQ, "s", DQ, NL>>,
      <<"}", NL>>,
      <<"}", NL>>,
      <<"}", ",", NL>>,
      <<DQ, "T", DQ, ":", " ", "3", NL>>,
      <<"}", NL>>>>

\* a settings.json whose description holds //, and a shadow entry that
\* shares its line with a member
CodecJson4 ==
    <<<<"{", NL>>,
      <<DQ, "U", "#", DQ, ":", " ", DQ, "s", "e", "e", " ", "/", "/", "x", DQ, ",", NL>>,
      <<DQ, "U", DQ, ":", " ", "t", "r", "u", "e", ",", NL>>,
      <<DQ, "V", "#", DQ, ":", " ", DQ, "v", DQ, ",", " ", DQ, "V", DQ, ":", " ", "0", NL>>,
      <<"}", NL>>>>

\* a Config_DX11.ini with a comment line, spaces around =, a blank line,
\* a tuple and a boolean
CodecIni2 ==
    <<<<"[", "A", "]", NL>>,
      <<"/", "/", " ", "n", "o", "t", "e", NL>>,
      <<"k", " ", "=", " ", "1", ".", "5", " ", "/", "/", " ", "c", NL>>,
      <<"s", "=", "a", "b", "c", NL>>,
      <<NL>>,
      <<"[", "B", "]", NL>>,
      <<"t", "=", "(", "1", ".", "0", ",", " ", "2", ".", "0", ")", NL>>,
      <<"b", "=", "o", "n", NL>>>>

\* a settings.json whose two sections hold the same keys, with commas
\* after the members the written values belong to
CodecJson5 ==
    <<<<"{", NL>>,
      <<DQ, "A", DQ, ":", " ", "{", NL>>,
      <<DQ, "Q", DQ, ":", " ", "1", ",", NL>>,
      <<DQ, "Z", DQ, ":", " ", "t", "r", "u", "e", NL>>,
      <<"}", ",", NL>>,
      <<DQ, "B", DQ, ":", " ", "{", NL>>,
      <<DQ, "Q", DQ, ":", " ", "3", ",", NL>>,
      <<DQ, "Z", DQ, ":", " ", "f", "a", "l", "s", "e", NL>>,
      <<"}", NL>>,
      <<"}", NL>>>>

\* a settings.json and a Config_DX11.ini none of whose fields share a
\* leaf key: a key that holds its own value's digit, a string with a comma,
\* a tuple
JsonFile4 ==
    <<<<"{", NL>>,
      <<DQ, "G", DQ, ":", " ", "{", NL>>,
      <<DQ, "A", "1", DQ, ":", " ", "1", ",", NL>>,
      <<DQ, "B", DQ, ":", " ", DQ, "a", ",", "b", DQ, NL>>,
      <<"}", NL>>,
      <<"}", NL>>>>

IniFile2 ==
    <<<<"[", "A", "]", NL>>,
      <<"k", "=", "1", ".", "5", " ", "/", "/", " ", "c", NL>>,
      <<"s", "=", "a", "b", "c", NL>>,
      <<"t", "=", "(", "1", ".", "0", ",", " ", "2", ".", "0", ")", NL>>>>

\* the documents the codecs are run on, on their own
CodecDocs ==
    {[kind |-> "json", lines |-> JsonFile1],
     [kind |-> "json", lines |-> CodecJson3],
     [kind |-> "json", lines |-> CodecJson4],
     [kind |-> "json", lines |-> CodecJson5],
     [kind |-> "ini", lines |-> IniFile1],
     [kind |-> "ini", lines |-> CodecIni2]}

JsonPaths == {"j1", "j2", "jx"}

IniPaths == {"i1", "ix"}

\* the text an input control hands to set_field_value
SetInputs == {PyStr(<<"2">>), PyStr(<<>>)}

\* Optional[...]: None is <<>>, a value x is <<x>>
None == <<>>

Some(x) == <<x>>

\* f.readlines() of a file written as chunks
ReadLines(chunks) == SplitLines(Join(chunks))

(***************************************************************************)
(* configuration_model.py: ConfigurationModel.  The methods are operators  *)
(* on self, the record of the object's attributes, and return [self, ret]; *)
(* notified is the sequence of the _notify_observers calls of one method.  *)
(***************************************************************************)
VARIABLES
    json_config,        \* self.json_config: None or a ConfigData
    ini_config,         \* self.ini_config
    field_states,       \* self.field_states: path -> FieldState
    json_file_path,     \* self.json_file_path: None or a path
    ini_file_path,      \* self.ini_file_path
    _modified_fields,   \* self._modified_fields: a set of paths
    _observers,         \* self._observers: the list of observers
    notified,           \* the notifications of the last call
    disk,               \* the files: path -> the lines written
    last,               \* the last call: its name, arguments and result
    fs,                 \* a FieldState used on its own
    calls,              \* the number of calls made so far
    codec,              \* a document taken through a parser and its writer
    conversion,         \* an input taken through set_field_value on its own
    comparison          \* two mappings taken through compare_configurations

vars == <<json_config, ini_config, field_states, json_file_path,
          ini_file_path, _modified_fields, _observers, notified, disk, last, fs, calls,
          codec, conversion, comparison>>

\* the attributes of the model, without the record of its calls
model_vars == <<json_config, ini_config, field_states, json_file_path,
                ini_file_path, _modified_fields, _observers>>

Self ==
    [json_config |-> json_config, ini_config |-> ini_config,
     field_states |-> field_states, json_file_path |-> json_file_path,
     ini_file_path |-> ini_file_path, _modified_fields |-> _modified_fields,
     _observers |-> _observers, notified |-> <<>>]

\* ConfigurationModel.__init__
NewModel ==
    [json_config |-> None, ini_config |-> None,
     field_states |-> <<>>, json_file_path |-> None,
     ini_file_path |-> None, _modified_fields |-> {},
     _observers |-> <<>>, notified |-> <<>>]

Event(event, path, value, count) ==
    [event |-> event, path |-> path, value |-> value, count |-> count]

\* the callables registered as observers, named by what they do when
\* called: return, raise, or call remove_observer on themselves
Observers == {"plain", "raising", "unregistering"}

\* ConfigurationModel.add_observer
add_observer(self, observer) ==
    IF \A i \in 1..Len(self._observers) : self._observers[i] # observer
    THEN [self EXCEPT !._observers = Append(@, observer)]
    ELSE self

\* list.remove(observer): the first occurrence goes
ListRemove(list, observer) ==
    LET i == CHOOSE i \in 1..Len(list) :
                 list[i] = observer /\ \A j \in 1..(i - 1) : list[j] # observer
    IN  SubSeq(list, 1, i - 1) \o SubSeq(list, i + 1, Len(list))

\* ConfigurationModel.remove_observer
remove_observer(self, observer) ==
    IF \E i \in 1..Len(self._observers) : self._observers[i] = observer
    THEN [self EXCEPT !._observers = ListRemove(@, observer)]
    ELSE self

\* the loop of _notify_observers from index i on, over the list as the
\* observers called so far have left it: [self, invoked]
RECURSIVE Deliver(_, _, _)
Deliver(self, i, invoked) ==
    IF i > Len(self._observers) THEN [self |-> self, invoked |-> invoked]
    ELSE LET observer == self._observers[i]
         IN  Deliver(IF observer = "unregistering"
                     THEN remove_observer(self, observer) ELSE self,
                     i + 1, Append(invoked, observer))

\* one call of _notify_observers: the event and its arguments, the
\* observers registered when it began and those it called, in order
Notification(event, registered, invoked) ==
    [event |-> event.event, path |-> event.path, value |-> event.value,
     count |-> event.count, registered |-> registered, invoked |-> invoked]

Notified(self, event, delivered) ==
    [delivered.self EXCEPT
        !.notified = Append(@, Notification(event, self._observers,
                                            delivered.invoked))]

\* ConfigurationModel._notify_observers
_notify_observers(self, event) == Notified(self, event, Deliver(self, 1, <<>>))

IniPrefix == <<"i", "n", "i", ".">>

\* FieldState(field_info.value) for the fields of one document, under
\* prefix + path
StatesOf(config, prefix) ==
    [key \in {prefix \o config.fields[i].k : i \in 1..Len(config.fields)} |->
        FieldState(DictGet(config.fields, From(key, Len(prefix) + 1)).value)]

\* ConfigurationModel._initialize_field_states: the INI fields are stored
\* after the JSON fields
_initialize_field_states(self) ==
    LET json_states == IF self.json_config # None
                       THEN StatesOf(self.json_config[1], <<>>) ELSE <<>>
        ini_states == IF self.ini_config # None
                      THEN StatesOf(self.ini_config[1], IniPrefix) ELSE <<>>
    IN  [self EXCEPT
           !.field_states =
               [key \in DOMAIN json_states \cup DOMAIN ini_states |->
                   IF key \in DOMAIN ini_states THEN ini_states[key]
                   ELSE json_states[key]],
           !._modified_fields = {}]

\* parser.parse_file(path) of load_configuration: the parser raises
\* FileNotFoundError when the path is no file
ParseFile(files, path, parsed) ==
    IF path \in DOMAIN files THEN parsed
    ELSE [raised |-> TRUE, config |-> ConfigData(<<>>, <<>>)]

\* the body of load_configuration, with what the two parse_file calls give
Loaded(self, json_path, ini_path, json_parsed, ini_parsed) ==
    IF json_parsed.raised THEN [self |-> self, ret |-> FALSE]
    ELSE IF ini_parsed.raised
    THEN [self |-> [self EXCEPT !.json_config = Some(json_parsed.config),
                                !.json_file_path = Some(json_path)],
          ret |-> FALSE]
    ELSE [self |-> _notify_observers(
                       _initialize_field_states(
                           [self EXCEPT
                              !.json_config = Some(json_parsed.config),
                              !.json_file_path = Some(json_path),
                              !.ini_config = Some(ini_parsed.config),
                              !.ini_file_path = Some(ini_path)]),
                       Event("configuration_loaded", <<>>, PyNone, 0)),
          ret |-> TRUE]

\* ConfigurationModel.load_configuration, files the files on disk
load_configuration(self, files, json_path, ini_path) ==
    Loaded(self, json_path, ini_path,
           ParseFile(files, json_path,
                     json_parse_file(ReadLines(files[json_path]))),
           ParseFile(files, ini_path,
                     ini_parse_file(ReadLines(files[ini_path]))))

\* ConfigurationModel.get_field_value
get_field_value(self, field_path) ==
    IF field_path \in DOMAIN self.field_states
    THEN self.field_states[field_path].current_value
    ELSE PyNone

\* ConfigurationModel.is_field_modified
is_field_modified(self, field_path) ==
    IF field_path \in DOMAIN self.field_states
    THEN self.field_states[field_path].is_modified
    ELSE FALSE

\* ConfigurationModel.get_field_info: None or the FieldInfo
get_field_info(self, field_path) ==
    IF StartsWith(field_path, IniPrefix)
    THEN IF /\ self.ini_config # None
            /\ HasField(self.ini_config[1], From(field_path, Len(IniPrefix) + 1))
         THEN Some(DictGet(self.ini_config[1].fields,
                           From(field_path, Len(IniPrefix) + 1)))
         ELSE None
    ELSE IF self.json_config # None /\ HasField(self.json_config[1], field_path)
         THEN Some(DictGet(self.json_config[1].fields, field_path))
         ELSE None

\* ConfigurationModel.change_count
change_count(self) == Cardinality(self._modified_fields)

\* an exception that leaves a method in place of a value
Raised(exc) == Val(exc, 0, <<>>, <<>>)

IsRaised(v) == v.t \in {"OverflowError"}

\* int(x) inside try ... except (ValueError, TypeError): 0 for the two
\* caught, any other exception leaves the method
IntOrZero(x) ==
    IF IntOfFloat(x).ok THEN IntOfFloat(x).v
    ELSE IF IntOfFloat(x).exc = "ValueError" THEN PyInt(0)
    ELSE Raised(IntOfFloat(x).exc)

\* float(x) of a number
FloatOfNumber(x) == IF IsFloat(x) THEN x ELSE PyFloat(Tenths(x))

\* ConfigurationModel._convert_value_to_type
_convert_value_to_type(value, original_value) ==
    IF IsBool(original_value) THEN PyBool(Truthy(value))
    ELSE IF IsInt(original_value)
    THEN IF value.t = "str"
         THEN IF Strip(value.s) = <<>> THEN PyInt(0)
              ELSE IF ParseFloat(value.s).ok
              THEN IntOrZero(ParseFloat(value.s).v)
              ELSE PyInt(0)
         ELSE IF IsNumber(value) THEN IntOrZero(FloatOfNumber(value))
         ELSE PyInt(0)
    ELSE IF IsFloat(original_value)
    THEN IF value.t = "str"
         THEN IF Strip(value.s) = <<>> THEN PyFloat(0)
              ELSE IF ParseFloat(value.s).ok
              THEN ParseFloat(value.s).v
              ELSE PyFloat(0)
         ELSE IF IsNumber(value) THEN FloatOfNumber(value)
         ELSE PyFloat(0)
    ELSE IF value.t = "NoneType" THEN PyStr(<<>>)
    ELSE PyStr(PyStrOf(value))

\* the assignment had it moved the parse-time value along with the value
SetFieldInfoValue_Rebases(config, path, value) ==
    IF config # None /\ HasField(config[1], path)
    THEN Some([config[1] EXCEPT !.fields =
                 [i \in 1..Len(@) |->
                     IF @[i].k = path
                     THEN [@[i] EXCEPT !.v.value = value,
                                       !.v.original_value = value]
                     ELSE @[i]]])
    ELSE config

\* config_data.fields[path].value = value, when the config is there and
\* holds the path
SetFieldInfoValue(config, path, value) ==
    IF config # None /\ HasField(config[1], path)
    THEN Some([config[1] EXCEPT !.fields =
                 [i \in 1..Len(@) |->
                     IF @[i].k = path
                     THEN [@[i] EXCEPT !.v.value = value] ELSE @[i]]])
    ELSE config

\* _update_config_data had it left the ConfigData as it was
_update_config_data_Skips(self, field_path, value) == self

\* ConfigurationModel._update_config_data
_update_config_data(self, field_path, value) ==
    IF StartsWith(field_path, IniPrefix)
    THEN [self EXCEPT !.ini_config =
             SetFieldInfoValue(@, From(field_path, Len(IniPrefix) + 1), value)]
    ELSE [self EXCEPT !.json_config = SetFieldInfoValue(@, field_path, value)]

\* set_field_value had it added the path whatever is_modified says
TrackModified_AlwaysAdds(modified, field_path, is_modified) ==
    modified \cup {field_path}

\* the branch of set_field_value that keeps _modified_fields
TrackModified(modified, field_path, is_modified) ==
    IF is_modified THEN modified \cup {field_path}
    ELSE modified \ {field_path}

\* set_field_value had it reported a change and notified whatever the
\* value set
set_field_value_AlwaysNotifies(self, field_path, value) ==
    IF field_path \notin DOMAIN self.field_states
    THEN [self |-> self, ret |-> FALSE, raised |-> FALSE]
    ELSE LET field_state == self.field_states[field_path]
             converted_value ==
                 _convert_value_to_type(value, field_state.original_value)
             set == FieldState_set_value(field_state, converted_value)
             self1 == [self EXCEPT
                         !.field_states[field_path] = set.fs,
                         !._modified_fields =
                             TrackModified(@, field_path, set.fs.is_modified)]
         IN  [self |-> _notify_observers(
                           _update_config_data(self1, field_path,
                                               converted_value),
                           Event("field_changed", field_path,
                                 converted_value, 0)),
              ret |-> TRUE, raised |-> FALSE]

\* ConfigurationModel.set_field_value
set_field_value(self, field_path, value) ==
    IF field_path \notin DOMAIN self.field_states
    THEN [self |-> self, ret |-> FALSE, raised |-> FALSE]
    ELSE LET field_state == self.field_states[field_path]
             converted_value ==
                 _convert_value_to_type(value, field_state.original_value)
             set == FieldState_set_value(field_state, converted_value)
             self1 == [self EXCEPT
                         !.field_states[field_path] = set.fs,
                         !._modified_fields =
                             TrackModified(@, field_path, set.fs.is_modified)]
         IN  \* an exception of the conversion leaves set_field_value
             IF IsRaised(converted_value)
             THEN [self |-> self, ret |-> FALSE, raised |-> TRUE]
             ELSE IF ~set.ret
             THEN [self |-> self, ret |-> FALSE, raised |-> FALSE]
             ELSE [self |-> _notify_observers(
                                _update_config_data(self1, field_path,
                                                    converted_value),
                                Event("field_changed", field_path,
                                      converted_value, 0)),
                   ret |-> TRUE, raised |-> FALSE]

\* revert_field had it left the path in _modified_fields
revert_field_KeepsTracked(self, field_path) ==
    IF field_path \notin DOMAIN self.field_states
    THEN [self |-> self, ret |-> FALSE]
    ELSE LET reverted == FieldState_revert(self.field_states[field_path])
         IN  IF ~reverted.ret THEN [self |-> self, ret |-> FALSE]
             ELSE [self |-> _notify_observers(
                                _update_config_data(
                                    [self EXCEPT !.field_states[field_path] =
                                                     reverted.fs],
                                    field_path, reverted.fs.current_value),
                                Event("field_reverted", field_path, PyNone, 0)),
                   ret |-> TRUE]

\* ConfigurationModel.revert_field
revert_field(self, field_path) ==
    IF field_path \notin DOMAIN self.field_states
    THEN [self |-> self, ret |-> FALSE]
    ELSE LET reverted == FieldState_revert(self.field_states[field_path])
             self1 == [self EXCEPT
                         !.field_states[field_path] = reverted.fs,
                         !._modified_fields = @ \ {field_path}]
         IN  IF ~reverted.ret THEN [self |-> self, ret |-> FALSE]
             ELSE [self |-> _notify_observers(
                                _update_config_data(self1, field_path,
                                                    reverted.fs.current_value),
                                Event("field_reverted", field_path, PyNone, 0)),
                   ret |-> TRUE]

\* the loop of revert_all_changes over modified_fields, from i on:
\* [self, reverted_count]
RECURSIVE RevertEach(_, _, _, _)
RevertEach(self, modified_fields, i, reverted_count) ==
    IF i > Len(modified_fields)
    THEN [self |-> self, reverted_count |-> reverted_count]
    ELSE LET r == revert_field(self, modified_fields[i])
         IN  RevertEach(r.self, modified_fields, i + 1,
                        IF r.ret THEN reverted_count + 1 ELSE reverted_count)

\* ConfigurationModel.revert_all_changes; modified_fields is
\* list(self._modified_fields), in the order the set gives
revert_all_changes(self, modified_fields) ==
    LET r == RevertEach(self, modified_fields, 1, 0)
    IN  [self |-> IF r.reverted_count > 0
                  THEN _notify_observers(r.self,
                           Event("all_changes_reverted", <<>>, PyNone,
                                 r.reverted_count))
                  ELSE r.self,
         ret |-> r.reverted_count]

\* apply_changes had it gone on to the INI writer after the JSON writer
\* returned False
WritePlan_IniAfterFailure(self, json_written, ini_written) ==
    LET json == self.json_config # None /\ self.json_file_path # None
        ini == self.ini_config # None /\ self.ini_file_path # None
    IN  [writes |->
             (IF json THEN <<[file |-> "json", ok |-> json_written]>>
              ELSE <<>>)
             \o (IF ini THEN <<[file |-> "ini", ok |-> ini_written]>>
                 ELSE <<>>),
         success |-> (json => json_written) /\ (ini => ini_written)]

\* the writers apply_changes calls, in the order it calls them;
\* json_written and ini_written tell whether the writer, if called, returns
\* True: [writes, success], writes the sequence of [file, ok]
WritePlan(self, json_written, ini_written) ==
    LET json == self.json_config # None /\ self.json_file_path # None
        json_failed == json /\ ~json_written
        ini == /\ ~json_failed
               /\ self.ini_config # None /\ self.ini_file_path # None
        ini_failed == ini /\ ~ini_written
    IN  [writes |->
             (IF json THEN <<[file |-> "json", ok |-> json_written]>>
              ELSE <<>>)
             \o (IF ini THEN <<[file |-> "ini", ok |-> ini_written]>>
                 ELSE <<>>),
         success |-> ~json_failed /\ ~ini_failed]

\* the writer of file was called and returned True
Wrote(plan, file) ==
    \E i \in 1..Len(plan.writes) :
        plan.writes[i].file = file /\ plan.writes[i].ok

\* the files after the writes of apply_changes; a writer that returns False
\* has not opened its file
FilesWritten(self, files, plan) ==
    [p \in DOMAIN files |->
        IF Wrote(plan, "json") /\ p = self.json_file_path[1]
        THEN json_write_preserving_structure(self.json_config[1])
        ELSE IF Wrote(plan, "ini") /\ p = self.ini_file_path[1]
        THEN ini_write_preserving_structure(self.ini_config[1])
        ELSE files[p]]

\* apply_changes had it cleared _modified_fields without promoting the
\* field states
MarkApplied_ClearsOnly(self) ==
    [self EXCEPT !._modified_fields = {}]

\* "Mark all changes as applied" of apply_changes
MarkApplied(self) ==
    [self EXCEPT
       !.field_states =
           [p \in DOMAIN @ |->
               IF p \in self._modified_fields
               THEN FieldState_apply_changes(@[p]) ELSE @[p]],
       !._modified_fields = {}]

\* apply_changes had it marked the changes applied whatever the writers
\* returned
apply_changes_MarksOnFailure(self, files, json_written, ini_written) ==
    [self |-> _notify_observers(MarkApplied(self),
                  Event("changes_applied", <<>>, PyNone, 0)),
     ret |-> WritePlan(self, json_written, ini_written).success,
     writes |-> WritePlan(self, json_written, ini_written).writes,
     files |-> FilesWritten(self, files,
                            WritePlan(self, json_written, ini_written))]

\* ConfigurationModel.apply_changes: [self, ret, writes, files]
apply_changes(self, files, json_written, ini_written) ==
    LET plan == WritePlan(self, json_written, ini_written)
    IN  [self |-> IF plan.success
                  THEN _notify_observers(MarkApplied(self),
                           Event("changes_applied", <<>>, PyNone, 0))
                  ELSE self,
         ret |-> plan.success,
         writes |-> plan.writes,
         files |-> FilesWritten(self, files, plan)]

(***************************************************************************)
(* The calls a user of the model makes.                                    *)
(***************************************************************************)
\* what a call found before it ran: the value of its field, change_count,
\* the modified fields, and whether a revert_field follows a set_field_value
\* of the same path (then value, count and modified are those before the set)
Pre(value, count, modified, after_set) ==
    [value |-> value, count |-> count, modified |-> modified,
     after_set |-> after_set]

NoPre == Pre(PyNone, 0, {}, FALSE)

\* the record of a call: its name, its path argument, what it returned
\* (count for revert_all_changes), the writers it called, what it found
Call(op, path, ret, count, writes, pre) ==
    [op |-> op, path |-> path, ret |-> ret, count |-> count,
     writes |-> writes, pre |-> pre]

NoCall == Call("__init__", <<>>, FALSE, 0, <<>>, NoPre)

\* a document: its kind, the lines read, the ConfigData parsed from them
\* and the lines written back, both None until there
Codec(kind, lines, config, out) ==
    [kind |-> kind, lines |-> lines, config |-> config, out |-> out]

NoCodec == Codec("json", <<>>, None, None)

\* a value handed to set_field_value for a field parsed as original_value:
\* done once the call was made, raised when it ended in an exception, ret
\* and current_value what it returned and what the field state then holds
Conversion(value, original_value, done, raised, ret, current_value) ==
    [value |-> value, original_value |-> original_value, done |-> done,
     raised |-> raised, ret |-> ret, current_value |-> current_value]

NoConversion == Conversion(PyNone, PyNone, FALSE, FALSE, FALSE, PyNone)

\* two mappings path -> FieldInfo handed to compare_configurations, and
\* the list it returned once done
Comparison(config1_data, config2_data, done, differences) ==
    [config1_data |-> config1_data, config2_data |-> config2_data,
     done |-> done, differences |-> differences]

NoComparison == Comparison(<<>>, <<>>, FALSE, <<>>)

InitialDisk ==
    [p \in {"j1", "j2", "i1"} |->
        CASE p = "j1" -> JsonFile1
          [] p = "j2" -> JsonFile2
          [] OTHER -> IniFile1]

Init ==
    /\ json_config = NewModel.json_config
    /\ ini_config = NewModel.ini_config
    /\ field_states = NewModel.field_states
    /\ json_file_path = NewModel.json_file_path
    /\ ini_file_path = NewModel.ini_file_path
    /\ _modified_fields = NewModel._modified_fields
    /\ _observers = NewModel._observers
    /\ notified = <<>>
    /\ disk = InitialDisk
    /\ last = NoCall
    /\ fs = FieldState(PyNone)
    /\ calls = 0
    /\ codec = NoCodec
    /\ conversion = NoConversion
    /\ comparison = NoComparison

\* the longest sequence of calls explored
MaxCalls == 4

\* one more call, while the sequence may grow
Counted ==
    /\ calls < MaxCalls
    /\ calls' = calls + 1

\* the attributes of self become the state
Install(self) ==
    /\ Counted
    /\ json_config' = self.json_config
    /\ ini_config' = self.ini_config
    /\ field_states' = self.field_states
    /\ json_file_path' = self.json_file_path
    /\ ini_file_path' = self.ini_file_path
    /\ _modified_fields' = self._modified_fields
    /\ _observers' = self._observers
    /\ notified' = self.notified

\* a path no document holds
UnknownPath == <<"n", "o">>

\* the paths callers pass
CallPaths == DOMAIN field_states \cup {UnknownPath}

\* the orders in which a set can be listed
Orders(S) ==
    {f \in [1..Cardinality(S) -> S] :
        \A i, j \in 1..Cardinality(S) : i # j => f[i] # f[j]}

LoadConfiguration(json_path, ini_path) ==
    \E r \in {load_configuration(Self, disk, json_path, ini_path)} :
        /\ Install(r.self)
        /\ last' = Call("load_configuration", <<>>, r.ret, 0, <<>>, NoPre)
        /\ UNCHANGED <<disk, fs, codec, conversion, comparison>>

SetFieldValue(field_path, value) ==
    \E r \in {set_field_value(Self, field_path, value)} :
        /\ Install(r.self)
        /\ last' = Call("set_field_value", field_path, r.ret, 0, <<>>,
                        Pre(get_field_value(Self, field_path),
                            change_count(Self), _modified_fields, FALSE))
        /\ UNCHANGED <<disk, fs, codec, conversion, comparison>>

RevertField(field_path) ==
    \E r \in {revert_field(Self, field_path)} :
        /\ Install(r.self)
        /\ last' = Call("revert_field", field_path, r.ret, 0, <<>>,
                        IF last.op = "set_field_value" /\ last.path = field_path
                        THEN [last.pre EXCEPT !.after_set = TRUE]
                        ELSE NoPre)
        /\ UNCHANGED <<disk, fs, codec, conversion, comparison>>

RevertAllChanges(modified_fields) ==
    \E r \in {revert_all_changes(Self, modified_fields)} :
        /\ Install(r.self)
        /\ last' = Call("revert_all_changes", <<>>, r.ret > 0, r.ret, <<>>,
                        NoPre)
        /\ UNCHANGED <<disk, fs, codec, conversion, comparison>>

ApplyChanges(json_written, ini_written) ==
    \E r \in {apply_changes(Self, disk, json_written, ini_written)} :
        /\ Install(r.self)
        /\ disk' = r.files
        /\ last' = Call("apply_changes", <<>>, r.ret, 0, r.writes,
                        Pre(PyNone, change_count(Self), _modified_fields,
                            FALSE))
        /\ UNCHANGED <<fs, codec, conversion, comparison>>

AddObserver(observer) ==
    /\ Install(add_observer(Self, observer))
    /\ last' = Call("add_observer", <<>>, FALSE, 0, <<>>, NoPre)
    /\ UNCHANGED <<disk, fs, codec, conversion, comparison>>

RemoveObserver(observer) ==
    /\ Install(remove_observer(Self, observer))
    /\ last' = Call("remove_observer", <<>>, FALSE, 0, <<>>, NoPre)
    /\ UNCHANGED <<disk, fs, codec, conversion, comparison>>

Next ==
    \/ \E json_path \in JsonPaths, ini_path \in IniPaths :
           LoadConfiguration(json_path, ini_path)
    \/ \E field_path \in CallPaths, value \in SetInputs :
           SetFieldValue(field_path, value)
    \/ \E field_path \in CallPaths : RevertField(field_path)
    \/ \E modified_fields \in Orders(_modified_fields) :
           RevertAllChanges(modified_fields)
    \/ \E json_written, ini_written \in BOOLEAN :
           ApplyChanges(json_written, ini_written)

Spec == Init /\ [][Next]_vars

(***************************************************************************)
(* The calls with observers registered, on one pair of files.              *)
(***************************************************************************)
NextObservers ==
    \/ \E observer \in Observers : AddObserver(observer)
    \/ \E observer \in Observers : RemoveObserver(observer)
    \/ LoadConfiguration("j2", "i1")
    \/ \E field_path \in CallPaths, value \in SetInputs :
           SetFieldValue(field_path, value)
    \/ \E field_path \in CallPaths : RevertField(field_path)
    \/ \E modified_fields \in Orders(_modified_fields) :
           RevertAllChanges(modified_fields)
    \/ \E json_written, ini_written \in BOOLEAN :
           ApplyChanges(json_written, ini_written)

SpecObservers == Init /\ [][NextObservers]_vars

(***************************************************************************)
(* The same calls where the second settings file is JsonFile3.             *)
(***************************************************************************)
InitialDiskOverlap == [InitialDisk EXCEPT !["j2"] = JsonFile3]

InitOverlap ==
    /\ json_config = NewModel.json_config
    /\ ini_config = NewModel.ini_config
    /\ field_states = NewModel.field_states
    /\ json_file_path = NewModel.json_file_path
    /\ ini_file_path = NewModel.ini_file_path
    /\ _modified_fields = NewModel._modified_fields
    /\ _observers = NewModel._observers
    /\ notified = <<>>
    /\ disk = InitialDiskOverlap
    /\ last = NoCall
    /\ fs = FieldState(PyNone)
    /\ calls = 0
    /\ codec = NoCodec
    /\ conversion = NoConversion
    /\ comparison = NoComparison

SpecOverlap == InitOverlap /\ [][Next]_vars

(***************************************************************************)
(* The calls that change and write a loaded model, on files none of whose  *)
(* fields share a leaf key; calls counts the calls made after the load.    *)
(***************************************************************************)
InitialDiskApply ==
    [InitialDisk EXCEPT !["j1"] = JsonFile4, !["i1"] = IniFile2]

\* the model after load_configuration("j1", "i1") of a new model
LoadedForApply == load_configuration(NewModel, InitialDiskApply, "j1", "i1")

InitApply ==
    /\ json_config = LoadedForApply.self.json_config
    /\ ini_config = LoadedForApply.self.ini_config
    /\ field_states = LoadedForApply.self.field_states
    /\ json_file_path = LoadedForApply.self.json_file_path
    /\ ini_file_path = LoadedForApply.self.ini_file_path
    /\ _modified_fields = LoadedForApply.self._modified_fields
    /\ _observers = LoadedForApply.self._observers
    /\ notified = LoadedForApply.self.notified
    /\ disk = InitialDiskApply
    /\ last = Call("load_configuration", <<>>, LoadedForApply.ret, 0, <<>>,
                   NoPre)
    /\ fs = FieldState(PyNone)
    /\ calls = 0
    /\ codec = NoCodec
    /\ conversion = NoConversion
    /\ comparison = NoComparison

NextApply ==
    \/ \E field_path \in CallPaths, value \in SetInputs :
           SetFieldValue(field_path, value)
    \/ \E field_path \in CallPaths : RevertField(field_path)
    \/ \E json_written, ini_written \in BOOLEAN :
           ApplyChanges(json_written, ini_written)

SpecApply == InitApply /\ [][NextApply]_vars

(***************************************************************************)
(* A FieldState on its own: the calls of field_state.py on one object.     *)
(***************************************************************************)
\* the values a FieldState is built with and set to: 1, True and 1.0 are
\* equal in Python, "1" is not
FsValues == {PyInt(0), PyInt(1), PyBool(TRUE), PyFloat(10), PyStr(<<"1">>)}

FsMessages == {<<"e">>, <<"f">>}

InitFieldState ==
    /\ json_config = NewModel.json_config
    /\ ini_config = NewModel.ini_config
    /\ field_states = NewModel.field_states
    /\ json_file_path = NewModel.json_file_path
    /\ ini_file_path = NewModel.ini_file_path
    /\ _modified_fields = NewModel._modified_fields
    /\ _observers = NewModel._observers
    /\ notified = <<>>
    /\ disk = InitialDisk
    /\ last = NoCall
    /\ fs \in {FieldState(v) : v \in FsValues}
    /\ calls = 0
    /\ codec = NoCodec
    /\ conversion = NoConversion
    /\ comparison = NoComparison

\* a call on fs: nothing else changes
FsCall(op, ret, new_fs) ==
    /\ fs' = new_fs
    /\ last' = Call(op, <<>>, ret, 0, <<>>,
                    Pre(fs.current_value, 0, {}, FALSE))
    /\ UNCHANGED <<model_vars, notified, disk, calls, codec, conversion,
                 comparison>>

FsSetValue(new_value) ==
    LET r == FieldState_set_value(fs, new_value)
    IN  FsCall("FieldState.set_value", r.ret, r.fs)

FsRevert ==
    LET r == FieldState_revert(fs)
    IN  FsCall("FieldState.revert", r.ret, r.fs)

FsApplyChanges ==
    FsCall("FieldState.apply_changes", FALSE, FieldState_apply_changes(fs))

FsAddValidationError(error) ==
    FsCall("FieldState.add_validation_error", FALSE,
           FieldState_add_validation_error(fs, error))

FsAddValidationWarning(warning) ==
    FsCall("FieldState.add_validation_warning", FALSE,
           FieldState_add_validation_warning(fs, warning))

FsClearValidation ==
    FsCall("FieldState.clear_validation", FALSE,
           FieldState_clear_validation(fs))

NextFieldState ==
    \/ \E new_value \in FsValues : FsSetValue(new_value)
    \/ FsRevert
    \/ FsApplyChanges
    \/ \E error \in FsMessages : FsAddValidationError(error)
    \/ \E warning \in FsMessages : FsAddValidationWarning(warning)
    \/ FsClearValidation

SpecFieldState == InitFieldState /\ [][NextFieldState]_vars

(***************************************************************************)
(* A parser and its writer on their own: parse_file on a document, values  *)
(* assigned to FieldInfo.value as _update_config_data does, and            *)
(* write_preserving_structure.                                             *)
(***************************************************************************)
InitCodec ==
    /\ json_config = NewModel.json_config
    /\ ini_config = NewModel.ini_config
    /\ field_states = NewModel.field_states
    /\ json_file_path = NewModel.json_file_path
    /\ ini_file_path = NewModel.ini_file_path
    /\ _modified_fields = NewModel._modified_fields
    /\ _observers = NewModel._observers
    /\ notified = <<>>
    /\ disk = InitialDisk
    /\ last = NoCall
    /\ fs = FieldState(PyNone)
    /\ calls = 0
    /\ codec \in {Codec(d.kind, d.lines, None, None) : d \in CodecDocs}
    /\ conversion = NoConversion
    /\ comparison = NoComparison

\* a call on codec: nothing else changes
CodecCall(op, path, new_codec) ==
    /\ codec' = new_codec
    /\ last' = Call(op, path, TRUE, 0, <<>>, NoPre)
    /\ UNCHANGED <<model_vars, notified, disk, fs, calls, conversion,
                 comparison>>

\* parse_file of the codec's kind
CodecParseFile(kind, lines) ==
    IF kind = "json" THEN json_parse_file(lines) ELSE ini_parse_file(lines)

\* write_preserving_structure of the codec's kind
CodecWriteFile(kind, config_data) ==
    IF kind = "json" THEN json_write_preserving_structure(config_data)
    ELSE ini_write_preserving_structure(config_data)

CodecParse ==
    /\ codec.config = None
    /\ \E r \in {CodecParseFile(codec.kind, codec.lines)} :
           /\ ~r.raised
           /\ CodecCall("parse_file", <<>>,
                        [codec EXCEPT !.config = Some(r.config)])

\* field_info.value = the input converted as set_field_value converts it
CodecSet(field_path, value) ==
    /\ codec.config # None
    /\ HasField(codec.config[1], field_path)
    /\ CodecCall("FieldInfo.value", field_path,
                 [codec EXCEPT
                     !.config = SetFieldInfoValue(@, field_path,
                         _convert_value_to_type(value,
                             DictGet(codec.config[1].fields,
                                     field_path).original_value)),
                     !.out = None])

CodecWrite ==
    /\ codec.config # None
    /\ CodecCall("write_preserving_structure", <<>>,
                 [codec EXCEPT
                     !.out = Some(CodecWriteFile(codec.kind, codec.config[1]))])

\* the paths of the parsed document
CodecPaths ==
    IF codec.config = None THEN {}
    ELSE {codec.config[1].fields[i].k : i \in 1..Len(codec.config[1].fields)}

NextCodec ==
    \/ CodecParse
    \/ \E field_path \in CodecPaths, value \in SetInputs :
           CodecSet(field_path, value)
    \/ CodecWrite

SpecCodec == InitCodec /\ [][NextCodec]_vars

(***************************************************************************)
(* set_field_value on its own: one call on a model loaded from a document  *)
(* of one field, for each input and each parsed value.                     *)
(***************************************************************************)
\* the text of an input control, and the values a caller passes directly
ConvertInputs ==
    {PyStr(<<"1", "2">>), PyStr(<<"-", "3">>), PyStr(<<"2", ".", "9">>),
     PyStr(<<"-", "2", ".", "9">>), PyStr(<<" ", "7", " ">>),
     PyStr(<<"a", "b", "c">>), PyStr(<<>>), PyStr(<<" ">>),
     PyStr(<<"1", "2", "a">>), PyStr(<<"i", "n", "f">>),
     PyStr(<<"-", "I", "n", "f", "i", "n", "i", "t", "y">>),
     PyStr(<<"n", "a", "n">>), PyStr(<<"0">>),
     PyInt(5), PyInt(0), PyFloat(25), PyBool(TRUE), PyBool(FALSE), PyNone}

\* the values a field is parsed as
ConvertOriginals ==
    {PyInt(2), PyInt(0), PyFloat(15), PyBool(TRUE), PyBool(FALSE),
     PyStr(<<"a">>)}

ConvertPath == <<"G", ".", "Q">>

\* the model after load_configuration of a document whose one field
\* G.Q holds original_value
ConvertModel(original_value) ==
    _initialize_field_states(
        [NewModel EXCEPT
            !.json_config =
                Some(ConfigData(
                    <<[k |-> ConvertPath,
                       v |-> FieldInfo(ConvertPath, original_value, <<>>,
                                       preserve_types(original_value),
                                       <<"G">>, -1)]>>,
                    <<>>))])

InitConvert ==
    /\ json_config = NewModel.json_config
    /\ ini_config = NewModel.ini_config
    /\ field_states = NewModel.field_states
    /\ json_file_path = NewModel.json_file_path
    /\ ini_file_path = NewModel.ini_file_path
    /\ _modified_fields = NewModel._modified_fields
    /\ _observers = NewModel._observers
    /\ notified = <<>>
    /\ disk = InitialDisk
    /\ last = NoCall
    /\ fs = FieldState(PyNone)
    /\ calls = 0
    /\ codec = NoCodec
    /\ conversion \in {Conversion(v, o, FALSE, FALSE, FALSE, o) :
                          v \in ConvertInputs, o \in ConvertOriginals}
    /\ comparison = NoComparison

\* model.set_field_value("G.Q", value)
ConvertSet ==
    /\ ~conversion.done
    /\ \E r \in {set_field_value(ConvertModel(conversion.original_value),
                                  ConvertPath, conversion.value)} :
           conversion' =
               [conversion EXCEPT
                   !.done = TRUE, !.raised = r.raised, !.ret = r.ret,
                   !.current_value =
                       r.self.field_states[ConvertPath].current_value]
    /\ UNCHANGED <<model_vars, notified, disk, last, fs, calls, codec,
                   comparison>>

NextConvert == ConvertSet

SpecConvert == InitConvert /\ [][NextConvert]_vars

(***************************************************************************)
(* comparison_engine.py: ComparisonEngine.                                 *)
(***************************************************************************)
\* Difference
Difference(field_path, field_name, category, difference_type, value1, value2, field_type, description) ==
    [field_path |-> field_path, field_name |-> field_name,
     category |-> category, difference_type |-> difference_type,
     value1 |-> value1, value2 |-> value2, field_type |-> field_type,
     description |-> description]

\* the characters of the catalog in the order of their code points
CodePoints ==
    <<" ", ".", "0", "1", "2", "A", "B", "G", "Q", "R", "S", "a", "b", "e",
      "l", "n", "r">>

\* ord(c)
Ord(c) == CHOOSE i \in 1..Len(CodePoints) : CodePoints[i] = c

\* a < b of two str
RECURSIVE StrLess(_, _)
StrLess(a, b) ==
    IF b = <<>> THEN FALSE
    ELSE IF a = <<>> THEN TRUE
    ELSE IF Head(a) # Head(b) THEN Ord(Head(a)) < Ord(Head(b))
    ELSE StrLess(Tail(a), Tail(b))

\* ComparisonEngine._get_field_name: field_path.split(".")[-1]
RECURSIVE _get_field_name(_)
_get_field_name(field_path) ==
    LET i == Find(field_path, <<".">>)
    IN  IF i = 0 THEN field_path
        ELSE _get_field_name(From(field_path, i + 1))

\* _values_equal had it compared with == alone
_values_equal_Exact(value1, value2) == PyEq(value1, value2)

\* ComparisonEngine._values_equal; floats are given in tenths, and two
\* finite numbers a tenth or more apart are more than 1e-10 apart
RECURSIVE _values_equal(_, _)
_values_equal(value1, value2) ==
    IF value1.t = "NoneType" /\ value2.t = "NoneType" THEN TRUE
    ELSE IF value1.t = "NoneType" \/ value2.t = "NoneType" THEN FALSE
    ELSE IF IsNumber(value1) /\ IsNumber(value2)
    THEN IF IsFloat(value1) \/ IsFloat(value2)
         \* abs(x - y) < 1e-10 is False when x - y is inf or nan
         THEN /\ IsFinite(value1)
              /\ IsFinite(value2)
              /\ Tenths(value1) = Tenths(value2)
         ELSE value1.n = value2.n
    ELSE IF value1.t = "str" /\ value2.t = "str"
    THEN Strip(value1.s) = Strip(value2.s)
    ELSE IF value1.t \in {"list", "tuple"} /\ value2.t \in {"list", "tuple"}
    THEN /\ Len(value1.e) = Len(value2.e)
         /\ \A i \in 1..Len(value1.e) :
                _values_equal(value1.e[i], value2.e[i])
    ELSE PyEq(value1, value2)

\* d.category, d.field_name < e.category, e.field_name
KeyLess(d, e) ==
    \/ StrLess(d.category, e.category)
    \/ d.category = e.category /\ StrLess(d.field_name, e.field_name)

\* list.sort(key=...): stable, so d goes after what is not greater
RECURSIVE SortInsert(_, _)
SortInsert(sorted, d) ==
    IF sorted = <<>> THEN <<d>>
    ELSE IF KeyLess(d, Head(sorted)) THEN <<d>> \o sorted
    ELSE <<Head(sorted)>> \o SortInsert(Tail(sorted), d)

RECURSIVE SortDifferences(_)
SortDifferences(differences) ==
    IF differences = <<>> THEN <<>>
    ELSE SortInsert(
             SortDifferences(SubSeq(differences, 1, Len(differences) - 1)),
             differences[Len(differences)])

\* one round of the loop of compare_configurations: the differences with
\* what field_path adds
DifferenceOf(config1_data, config2_data, field_path) ==
    LET in1 == DictHas(config1_data, field_path)
        in2 == DictHas(config2_data, field_path)
        field1 == DictGet(config1_data, field_path)
        field2 == DictGet(config2_data, field_path)
        name == _get_field_name(field_path)
    IN  IF in1 /\ ~in2
        THEN <<Difference(field_path, name, field1.category, "field_removed",
                          field1.value, PyNone, field1.type,
                          field1.description)>>
        ELSE IF in2 /\ ~in1
        THEN <<Difference(field_path, name, field2.category, "field_added",
                          PyNone, field2.value, field2.type,
                          field2.description)>>
        ELSE IF in1 /\ in2
        THEN IF field1.type # field2.type
             THEN <<Difference(field_path, name, field1.category,
                               "type_changed", field1.value, field2.value,
                               field1.type, field1.description)>>
             ELSE IF ~_values_equal(field1.value, field2.value)
             THEN <<Difference(field_path, name, field1.category,
                               "value_changed", field1.value, field2.value,
                               field1.type, field1.description)>>
             ELSE <<>>
        ELSE <<>>

RECURSIVE CompareEach(_, _, _, _)
CompareEach(config1_data, config2_data, all_paths, i) ==
    IF i > Len(all_paths) THEN <<>>
    ELSE DifferenceOf(config1_data, config2_data, all_paths[i])
             \o CompareEach(config1_data, config2_data, all_paths, i + 1)

\* ComparisonEngine.compare_configurations; all_paths is a set, iterated
\* in the order given
compare_configurations(config1_data, config2_data, all_paths) ==
    SortDifferences(CompareEach(config1_data, config2_data, all_paths, 1))

(***************************************************************************)
(* compare_configurations on its own: one call on each pair of mappings.   *)
(***************************************************************************)
ComparePaths == {<<"G", ".", "Q">>, <<"G", ".", "S", ".", "Q">>}

\* the values of the compared fields
CompareValues ==
    {PyInt(1), PyBool(TRUE), PyFloat(10), PyFloat(11), PyNone,
     PyStr(<<" ", "a">>), PyStr(<<"a", " ">>),
     Val("list", 0, <<>>, <<PyInt(1), PyInt(2)>>),
     Val("list", 0, <<>>, <<PyInt(1), PyFloat(20)>>)}

\* the fields build_field_hierarchy makes of a path and a value
CompareFields(path) ==
    {FieldInfo(path, v, <<>>, preserve_types(v), <<"G">>, -1) :
        v \in CompareValues}

\* the mappings: each path is absent or holds one of its fields
CompareMappings ==
    LET Q == <<"G", ".", "Q">>
        SQ1 == <<"G", ".", "S", ".", "Q">>
        One(path) == {<<>>} \cup {<<[k |-> path, v |-> f]>> :
                                     f \in CompareFields(path)}
    IN  {a \o b : a \in One(Q), b \in One(SQ1)}

InitCompare ==
    /\ json_config = NewModel.json_config
    /\ ini_config = NewModel.ini_config
    /\ field_states = NewModel.field_states
    /\ json_file_path = NewModel.json_file_path
    /\ ini_file_path = NewModel.ini_file_path
    /\ _modified_fields = NewModel._modified_fields
    /\ _observers = NewModel._observers
    /\ notified = <<>>
    /\ disk = InitialDisk
    /\ last = NoCall
    /\ fs = FieldState(PyNone)
    /\ calls = 0
    /\ codec = NoCodec
    /\ conversion = NoConversion
    /\ comparison \in {Comparison(c1, c2, FALSE, <<>>) :
                          c1 \in CompareMappings, c2 \in CompareMappings}

\* the keys of a mapping
DictKeys(d) == {d[i].k : i \in 1..Len(d)}

\* engine.compare_configurations(config1_data, config2_data)
CompareConfigurations ==
    /\ ~comparison.done
    /\ \E all_paths \in Orders(DictKeys(comparison.config1_data)
                                  \cup DictKeys(comparison.config2_data)) :
           comparison' =
               [comparison EXCEPT
                   !.done = TRUE,
                   !.differences =
                       compare_configurations(comparison.config1_data,
                                              comparison.config2_data,
                                              all_paths)]
    /\ UNCHANGED <<model_vars, notified, disk, last, fs, calls, codec,
                   conversion>>

NextCompare == CompareConfigurations

SpecCompare == InitCompare /\ [][NextCompare]_vars

C2_ChangeCountCountsModified ==
    change_count(Self) =
        Cardinality({key \in DOMAIN field_states :
                        field_states[key].is_modified})

\* two fields are modified after a set_field_value
C2_Witness ==
    /\ last.op = "set_field_value"
    /\ last.ret
    /\ change_count(Self) = 2

\* the document of a key of field_states, read back from files: the value
\* it holds for the key's field is value
ReadBack(files, self, key, value) ==
    IF StartsWith(key, IniPrefix)
    THEN /\ self.ini_file_path # None
         /\ \E parsed \in
                {ini_parse_file(ReadLines(files[self.ini_file_path[1]]))} :
                /\ ~parsed.raised
                /\ HasField(parsed.config, From(key, Len(IniPrefix) + 1))
                /\ PyEq(DictGet(parsed.config.fields,
                                From(key, Len(IniPrefix) + 1)).value, value)
    ELSE /\ self.json_file_path # None
         /\ \E parsed \in
                {json_parse_file(ReadLines(files[self.json_file_path[1]]))} :
                /\ ~parsed.raised
                /\ HasField(parsed.config, key)
                /\ PyEq(DictGet(parsed.config.fields, key).value, value)

\* the writer of the key's document was called and returned True
WriterRan(writes, key) ==
    \E i \in 1..Len(writes) :
        /\ writes[i].ok
        /\ writes[i].file = IF StartsWith(key, IniPrefix) THEN "ini" ELSE "json"

\* C3: whenever apply_changes succeeds and a field goes from modified to
\* unmodified, the call wrote the field's current value into the field's
\* line of its file: the file the call leaves holds that value for the field.
C3_CleanFieldsWereWritten ==
    [][(last'.op = "apply_changes" /\ last'.ret) =>
           \A key \in DOMAIN field_states :
               (field_states[key].is_modified
                    /\ ~field_states'[key].is_modified) =>
                   /\ WriterRan(last'.writes, key)
                   /\ ReadBack(disk', Self, key,
                               field_states[key].current_value)]_vars

\* C4: when apply_changes fails, the model is as before the call (no
\* original_value promoted, the modified fields still modified, change_count
\* the same) and no changes_applied notification is sent.
C4_FailedApplyChangesNothing ==
    [][(last'.op = "apply_changes" /\ ~last'.ret) =>
           /\ UNCHANGED model_vars
           /\ \A i \in 1..Len(notified') :
                  notified'[i].event # "changes_applied"]_vars

\* the INI writer failed after the JSON writer succeeded, with changes
\* pending
C4_Witness ==
    /\ last.op = "apply_changes"
    /\ ~last.ret
    /\ Len(last.writes) = 2
    /\ _modified_fields # {}

\* C5: apply_changes writes the JSON file before the INI file, and when the
\* JSON write fails the INI write is not attempted, the INI file is as it
\* was and the call returns failure.
C5_JsonBeforeIni ==
    [][last'.op = "apply_changes" =>
           /\ \A i, j \in 1..Len(last'.writes) :
                  (last'.writes[i].file = "json"
                       /\ last'.writes[j].file = "ini") => i < j
           /\ (\E i \in 1..Len(last'.writes) :
                   last'.writes[i].file = "json" /\ ~last'.writes[i].ok) =>
                  /\ \A j \in 1..Len(last'.writes) :
                         last'.writes[j].file # "ini"
                  /\ ~last'.ret
                  /\ ini_file_path # None =>
                         disk'[ini_file_path[1]] = disk[ini_file_path[1]]]_vars

\* the JSON writer failed while an INI field was modified
C5_Witness ==
    /\ last.op = "apply_changes"
    /\ last.writes = <<[file |-> "json", ok |-> FALSE]>>
    /\ ini_config # None
    /\ \E key \in _modified_fields : StartsWith(key, IniPrefix)

\* C6: after a successful apply_changes every field that was modified
\* before the call is unmodified, change_count is 0, and revert_field on
\* any of those fields returns False and leaves its value as it is.
C6_ApplyPromotesBaseline ==
    (last.op = "apply_changes" /\ last.ret) =>
        /\ change_count(Self) = 0
        /\ \A key \in last.pre.modified :
               /\ ~is_field_modified(Self, key)
               /\ ~revert_field(Self, key).ret
               /\ get_field_value(revert_field(Self, key).self, key)
                      = get_field_value(Self, key)

\* a successful apply_changes with two fields modified before it
C6_Witness ==
    /\ last.op = "apply_changes"
    /\ last.ret
    /\ Cardinality(last.pre.modified) = 2

\* C7: for every field and every reachable state, set_field_value(path, v)
\* followed immediately by revert_field(path) leaves get_field_value(path)
\* equal to its value before the set, is_field_modified(path) false and
\* change_count equal to its value before the set.
C7_SetThenRevertRestores ==
    (/\ last.op = "revert_field"
     /\ last.pre.after_set
     /\ last.path \in DOMAIN field_states) =>
        /\ PyEq(get_field_value(Self, last.path), last.pre.value)
        /\ ~is_field_modified(Self, last.path)
        /\ change_count(Self) = last.pre.count

\* C7, for the fields that are not modified before the set.
C7_SetThenRevertRestoresUnmodified ==
    (/\ last.op = "revert_field"
     /\ last.pre.after_set
     /\ last.path \in DOMAIN field_states
     /\ last.path \notin last.pre.modified) =>
        /\ PyEq(get_field_value(Self, last.path), last.pre.value)
        /\ ~is_field_modified(Self, last.path)
        /\ change_count(Self) = last.pre.count

\* a revert_field that undid the set_field_value before it, on a field that
\* was unmodified before the set
C7_Witness ==
    /\ last.op = "revert_field"
    /\ last.ret
    /\ last.pre.after_set
    /\ last.path \in DOMAIN field_states
    /\ last.path \notin last.pre.modified

\* C8: when load_configuration fails, json_config, ini_config, the stored
\* file paths and field_states are as before the call.
C8_FailedLoadChangesNothing ==
    [][(last'.op = "load_configuration" /\ ~last'.ret) =>
           UNCHANGED <<json_config, ini_config, json_file_path,
                       ini_file_path, field_states>>]_vars

\* C9: in every reachable state every key of field_states resolves to a
\* FieldInfo, of json_config without the ini. prefix and of ini_config,
\* the prefix stripped, with it.
C9_KeysResolve ==
    \A key \in DOMAIN field_states : get_field_info(Self, key) # None

\* C10: in every reachable state the current_value of every FieldState
\* equals the value of its backing FieldInfo.
C10_CurrentValueIsBacking ==
    \A key \in DOMAIN field_states :
        get_field_info(Self, key) # None =>
            PyEq(field_states[key].current_value,
                 get_field_info(Self, key)[1].value)

\* the keys, as in field_states, of the fields whose FieldInfo value differs
\* from the value captured at parse time
Dirty(self) ==
    {key \in (IF self.json_config = None THEN {}
              ELSE {self.json_config[1].fields[i].k :
                        i \in 1..Len(self.json_config[1].fields)})
             \cup (IF self.ini_config = None THEN {}
                   ELSE {IniPrefix \o self.ini_config[1].fields[i].k :
                             i \in 1..Len(self.ini_config[1].fields)}) :
        ~PyEq(get_field_info(self, key)[1].value,
              get_field_info(self, key)[1].original_value)}

\* C11: a Clean field becomes Dirty whenever the model sets a new value,
\* and a Dirty field becomes Clean only through a successful apply_changes
\* or through a revert (steps that keep the documents).
C11_DirtyClearedOnlyByApplyOrRevert ==
    [][last'.op # "load_configuration" =>
           /\ Dirty(Self) \ Dirty(Self)' # {} =>
                  \/ last'.op = "apply_changes" /\ last'.ret
                  \/ last'.op \in {"revert_field", "revert_all_changes"}
           /\ (/\ last'.op = "set_field_value"
               /\ last'.ret
               /\ get_field_info(Self, last'.path) # None
               /\ last'.path \notin Dirty(Self)) =>
                  last'.path \in Dirty(Self)']_vars

\* C11, as the code has it: dirtiness changes only in set_field_value and
\* the reverts, and only for the fields they touch; after a set_field_value
\* that changed the field it is Dirty exactly when the value set differs
\* from the parse-time value; apply_changes never changes it.
C11_DirtyFollowsValue ==
    [][last'.op # "load_configuration" =>
           /\ Dirty(Self)' # Dirty(Self) =>
                  last'.op \in {"set_field_value", "revert_field",
                                "revert_all_changes"}
           /\ last'.op \in {"set_field_value", "revert_field"} =>
                  \A key \in DOMAIN field_states :
                      (key \in Dirty(Self)') # (key \in Dirty(Self)) =>
                          key = last'.path
           /\ (/\ last'.op = "set_field_value"
               /\ last'.ret
               /\ get_field_info(Self, last'.path) # None) =>
                  (last'.path \in Dirty(Self)' <=>
                       ~PyEq(field_states'[last'.path].current_value,
                             get_field_info(Self, last'.path)[1]
                                 .original_value))]_vars

\* a set_field_value gave a Dirty field its parse-time value back
C11_Witness ==
    /\ last.op = "set_field_value"
    /\ last.ret
    /\ last.path \in last.pre.modified
    /\ get_field_info(Self, last.path) # None
    /\ last.path \notin Dirty(Self)
    /\ get_field_info(Self, last.path)[1].value # last.pre.value

\* the paths whose FieldInfo.value is no longer the value parsed
CodecChanged ==
    {p \in CodecPaths :
        DictGet(codec.config[1].fields, p).value
            # DictGet(codec.config[1].fields, p).original_value}

\* C12: for both codecs, a document parsed and written back with no field
\* value changed gives lines identical, in content and order, to those read.
C12_UnchangedRoundTrip ==
    (codec.out # None /\ CodecChanged = {}) => codec.out[1] = codec.lines

\* a settings file with comments, a shadow entry and nesting written back
\* untouched
C12_Witness ==
    /\ codec.out # None
    /\ CodecChanged = {}
    /\ codec.kind = "json"
    /\ codec.lines = CodecJson3

\* the keys of the objects that enclose line i of a settings file laid out
\* one member per line, outermost first
RECURSIVE JsonEnclosing(_, _, _, _)
JsonEnclosing(lines, i, k, stack) ==
    IF k >= i THEN stack
    ELSE LET t == Strip(UncommentedLine(lines[k]))
         IN  JsonEnclosing(lines, i, k + 1,
                 IF t # <<>> /\ Head(t) = "}"
                 THEN IF stack = <<>> THEN stack
                      ELSE SubSeq(stack, 1, Len(stack) - 1)
                 ELSE IF t # <<>> /\ t[Len(t)] = "{" /\ KeyMatch(t).found
                 THEN Append(stack, KeyMatch(t).key)
                 ELSE stack)

\* the keys, each followed by a dot
RECURSIVE DottedPrefix(_)
DottedPrefix(stack) ==
    IF stack = <<>> THEN <<>>
    ELSE Head(stack) \o <<".">> \o DottedPrefix(Tail(stack))

\* line i of a settings file holds the value token of the field at path:
\* the member "key": of the object the path names
JsonHolds(lines, i, path) ==
    LET prefix == DottedPrefix(JsonEnclosing(lines, i, 1, <<>>))
        key == From(path, Len(prefix) + 1)
    IN  /\ StartsWith(path, prefix)
        /\ key # <<>>
        /\ Contains(lines[i], <<DQ>> \o key \o <<DQ, ":">>)

\* the section line i of a Config_DX11.ini lies in
RECURSIVE IniSectionAt(_, _)
IniSectionAt(lines, i) ==
    IF i < 1 THEN <<>>
    ELSE IF SectionMatch(Strip(lines[i])).found
    THEN SectionMatch(Strip(lines[i])).name
    ELSE IniSectionAt(lines, i - 1)

\* line i of a Config_DX11.ini holds the value token of the field at path:
\* key=value in the section the path names
IniHolds(lines, i, path) ==
    LET t == Strip(lines[i])
        eq == Find(t, <<"=">>)
    IN  /\ eq > 1
        /\ ~StartsWith(t, Slashes)
        /\ path = IniSectionAt(lines, i) \o <<".">> \o Strip(Upto(t, eq))

CodecHolds(i, path) ==
    IF codec.kind = "json" THEN JsonHolds(codec.lines, i, path)
    ELSE IniHolds(codec.lines, i, path)

\* C13: for every field F of a parsed document (JSON or INI), after only
\* F's value was changed and the document written back, every output line
\* other than the lines holding F's value token is identical to the
\* original line, and the number and order of lines are unchanged.
C13_OnlyOwnLinesChange ==
    (codec.out # None /\ Cardinality(CodecChanged) = 1) =>
        LET F == CHOOSE p \in CodecChanged : TRUE
            out == ReadLines(codec.out[1])
        IN  /\ Len(out) = Len(codec.lines)
            /\ \A i \in 1..Len(codec.lines) :
                   ~CodecHolds(i, F) => out[i] = codec.lines[i]

\* the position after the JSON value token that starts at i: a string runs
\* to its closing quote, a number or a literal to the next separator
RECURSIVE ScalarEnd(_, _)
ScalarEnd(line, i) ==
    IF i <= Len(line) /\ ~IsSpace(line[i]) /\ line[i] \notin {",", "}", "/"}
    THEN ScalarEnd(line, i + 1)
    ELSE i

JsonTokenEnd(line, i) ==
    IF CharAt(line, i) = DQ THEN StringEnd(line, i + 1) + 1
    ELSE ScalarEnd(line, i)

\* line with the value token that follows its first key replaced by token,
\* and nothing else touched
WithValueToken(line, token) ==
    LET key == KeyMatch(line).key
        start == SkipWs(line, Find(line, <<DQ>> \o key \o <<DQ, ":">>)
                                  + Len(key) + 3)
    IN  Upto(line, start) \o token \o From(line, JsonTokenEnd(line, start))

\* C14: when the JSON writer patches a line for a changed field, only the
\* value token that follows the key is replaced; the key text, separators,
\* whitespace and any trailing // comment on that line are left unchanged.
C14_OnlyValueTokenReplaced ==
    (codec.out # None /\ codec.kind = "json") =>
        \A i \in 1..Len(codec.lines) :
            codec.out[1][i] # codec.lines[i] =>
                \E p \in CodecChanged :
                    LET field_info == DictGet(codec.config[1].fields, p)
                    IN  codec.out[1][i] =
                            WithValueToken(codec.lines[i],
                                _format_value_for_json(field_info.value,
                                                       field_info.type))

\* the document as json.loads reads it once the // comments are cut, the
\* shadow description entries still in it
WithShadowEntries(lines) ==
    json_loads(DropTrailingCommas(
        Join([i \in 1..Len(lines) |-> UncommentedLine(lines[i])])))

\* the shadow entries "<Name>#": "<description>" among members and below:
\* the path of the entry, the path of the member <Name> beside it, and the
\* description
RECURSIVE ShadowEntries(_, _)
ShadowEntries(members, parent_path) ==
    UNION {LET key == members[i].k
               value == members[i].v
               current_path == IF parent_path # <<>>
                               THEN parent_path \o <<".">> \o key ELSE key
           IN  IF value.t = "dict" THEN ShadowEntries(value.e, current_path)
               ELSE IF Len(key) > 1 /\ key[Len(key)] = "#" /\ value.t = "str"
               THEN {[shadow |-> current_path,
                      field |-> Upto(current_path, Len(current_path)),
                      description |-> value.s]}
               ELSE {}
           : i \in 1..Len(members)}

\* C19: a shadow description entry "<Name>#": "<description>" never yields a
\* field: after parsing, no field path corresponds to a shadow key, and the
\* description it carries is attached to the field whose key is <Name>.
C19_ShadowEntriesDescribe ==
    (codec.kind = "json" /\ codec.config # None) =>
        \A entry \in ShadowEntries(WithShadowEntries(codec.lines).v.e, <<>>) :
            /\ ~HasField(codec.config[1], entry.shadow)
            /\ HasField(codec.config[1], entry.field) =>
                   DictGet(codec.config[1].fields, entry.field).description
                       = entry.description

\* the paths of the members below parent_path that are no objects
RECURSIVE LeafPaths(_, _)
LeafPaths(members, parent_path) ==
    UNION {LET current_path == parent_path \o <<".">> \o members[i].k
           IN  IF members[i].v.t = "dict"
               THEN LeafPaths(members[i].v.e, current_path)
               ELSE {current_path}
           : i \in 1..Len(members)}

\* the category a path should have: the key of the top-level object that
\* contains it, General for a top-level member that is no object; <<>> for
\* a path the document does not hold
TopLevelCategory(data, path) ==
    IF \E i \in 1..Len(data.e) :
           data.e[i].v.t = "dict" /\ path \in LeafPaths(data.e[i].v.e, data.e[i].k)
    THEN data.e[CHOOSE i \in 1..Len(data.e) :
                    /\ data.e[i].v.t = "dict"
                    /\ path \in LeafPaths(data.e[i].v.e, data.e[i].k)].k
    ELSE IF \E i \in 1..Len(data.e) : data.e[i].v.t # "dict" /\ data.e[i].k = path
    THEN General
    ELSE <<>>

\* C20: every field produced by flattening a JSON document, at any nesting
\* depth, has as category the key of the top-level object that contains it
\* (General for a top-level scalar), never the key of a deeper object.
C20_CategoryIsTopLevelKey ==
    (codec.kind = "json" /\ codec.config # None) =>
        \A p \in CodecPaths :
            DictGet(codec.config[1].fields, p).category
                = TopLevelCategory(json_loads(_remove_comments(codec.lines)).v, p)

\* a field three objects deep and a top-level scalar, parsed
C20_Witness ==
    /\ codec.kind = "json"
    /\ codec.config # None
    /\ last.op = "parse_file"
    /\ HasField(codec.config[1], <<"G", ".", "H", ".", "K", ".", "A", "1">>)
    /\ DictGet(codec.config[1].fields,
               <<"G", ".", "H", ".", "K", ".", "A", "1">>).category = <<"G">>
    /\ DictGet(codec.config[1].fields, <<"T">>).category = General

\* the FieldState a load builds for a parsed value
Fresh(field_state, field_info) ==
    /\ field_state.original_value = field_info.original_value
    /\ field_state.current_value = field_info.original_value
    /\ ~field_state.is_modified

\* C15: after a successful load, field_states holds exactly one entry per
\* JSON field path and one per INI field path under "ini." + path, each with
\* original_value = current_value = the parsed value and is_modified false,
\* and change_count is 0, whatever edits were pending before the load.
C15_LoadRebuildsFieldStates ==
    (last.op = "load_configuration" /\ last.ret) =>
        LET json_fields == json_config[1].fields
            ini_fields == ini_config[1].fields
        IN  /\ DOMAIN field_states =
                   {json_fields[i].k : i \in 1..Len(json_fields)}
                       \cup {IniPrefix \o ini_fields[i].k :
                                 i \in 1..Len(ini_fields)}
            /\ \A i \in 1..Len(json_fields) :
                   Fresh(field_states[json_fields[i].k], json_fields[i].v)
            /\ \A i \in 1..Len(ini_fields) :
                   Fresh(field_states[IniPrefix \o ini_fields[i].k],
                         ini_fields[i].v)
            /\ change_count(Self) = 0

\* the events of the notifications, without the observers they went to
Events(notifications) ==
    [i \in 1..Len(notifications) |->
        Event(notifications[i].event, notifications[i].path,
              notifications[i].value, notifications[i].count)]

\* C16: set_field_value(path, v) on a known path returns true exactly when
\* the coerced value differs from the field's current value; exactly then it
\* emits one field_changed(path, coerced value) notification, and when it
\* returns false no state changes and nothing is emitted.
C16_SetReportsChange ==
    [][\A field_path \in DOMAIN field_states, value \in SetInputs :
           SetFieldValue(field_path, value) =>
               LET coerced == _convert_value_to_type(value,
                                  field_states[field_path].original_value)
                   differs == ~PyEq(coerced,
                                    field_states[field_path].current_value)
               IN  /\ last'.ret <=> differs
                   /\ differs =>
                          Events(notified') =
                              <<Event("field_changed", field_path, coerced, 0)>>
                   /\ ~differs =>
                          /\ notified' = <<>>
                          /\ UNCHANGED <<model_vars, disk>>]_vars

\* a set that changed the value and one that did not, one after the other
C16_Witness ==
    /\ last.op = "set_field_value"
    /\ last.path \in DOMAIN field_states
    /\ ~last.ret
    /\ notified = <<>>
    /\ is_field_modified(Self, last.path)

\* C17: revert_all_changes reverts every currently modified field, returns
\* the number reverted, and observers receive exactly one notification for
\* the whole call, all_changes_reverted(count), not one per reverted field.
C17_RevertAllNotifiesOnce ==
    [][\A modified_fields \in Orders(_modified_fields) :
           (RevertAllChanges(modified_fields) /\ _modified_fields # {}) =>
               /\ _modified_fields' = {}
               /\ \A key \in _modified_fields :
                      /\ field_states'[key].current_value
                             = field_states[key].original_value
                      /\ ~field_states'[key].is_modified
               /\ last'.count = Cardinality(_modified_fields)
               /\ Events(notified') =
                      <<Event("all_changes_reverted", <<>>, PyNone,
                              last'.count)>>]_vars

\* self with no observer registered
Quiet(self) == [self EXCEPT !._observers = <<>>]

\* the step left the attributes of the model, the observers apart, as they
\* are in self
SameModel(self) ==
    /\ json_config' = self.json_config
    /\ ini_config' = self.ini_config
    /\ field_states' = self.field_states
    /\ json_file_path' = self.json_file_path
    /\ ini_file_path' = self.ini_file_path
    /\ _modified_fields' = self._modified_fields

\* C18: for every notification, each registered observer is invoked in
\* registration order, and an observer that raises does not prevent later
\* observers from being invoked, does not change the model state, and does
\* not make the triggering operation (set_field_value, revert_field,
\* apply_changes) fail: the operation returns what it returns, and leaves
\* the model as it leaves it, with no observer registered.
C18_ObserversAllInvoked ==
    [][/\ \A i \in 1..Len(notified') :
              notified'[i].invoked = notified'[i].registered
       /\ \A field_path \in CallPaths, value \in SetInputs :
              SetFieldValue(field_path, value) =>
                  /\ last'.ret = set_field_value(Quiet(Self), field_path, value).ret
                  /\ SameModel(set_field_value(Quiet(Self), field_path, value).self)
       /\ \A field_path \in CallPaths :
              RevertField(field_path) =>
                  /\ last'.ret = revert_field(Quiet(Self), field_path).ret
                  /\ SameModel(revert_field(Quiet(Self), field_path).self)
       /\ \A json_written, ini_written \in BOOLEAN :
              ApplyChanges(json_written, ini_written) =>
                  /\ last'.ret = apply_changes(Quiet(Self), disk, json_written,
                                               ini_written).ret
                  /\ SameModel(apply_changes(Quiet(Self), disk, json_written,
                                             ini_written).self)]_vars


(***************************************************************************)
(* C21: set_field_value coerces its input to the type of the field's       *)
(* original value and never raises: on an integer field the text of a      *)
(* number gives that integer, a decimal truncated, and any other text or   *)
(* empty text gives 0; on a float field the text of a number gives the     *)
(* float and invalid text gives 0.0; on a boolean field it gives the       *)
(* input's truthiness.                                                     *)
(***************************************************************************)
\* the text of a finite number, and the number in tenths
C21_Number(text) == ParseFloat(Strip(text))

C21_IsNumeric(text) ==
    Strip(text) # <<>> /\ C21_Number(text).ok /\ IsFinite(C21_Number(text).v)

C21_IsInvalid(text) == Strip(text) = <<>> \/ ~C21_Number(text).ok

C21_CoercesAndNeverRaises ==
    conversion.done =>
        /\ ~conversion.raised
        /\ IsBool(conversion.original_value) =>
               conversion.current_value = PyBool(Truthy(conversion.value))
        /\ conversion.original_value.t = "int" /\ conversion.value.t = "str" =>
               /\ C21_IsNumeric(conversion.value.s) =>
                      conversion.current_value =
                          PyInt(Trunc(C21_Number(conversion.value.s).v.n))
               /\ C21_IsInvalid(conversion.value.s) =>
                      conversion.current_value = PyInt(0)
        /\ IsFloat(conversion.original_value) /\ conversion.value.t = "str" =>
               /\ C21_IsNumeric(conversion.value.s) =>
                      conversion.current_value = C21_Number(conversion.value.s).v
               /\ C21_IsInvalid(conversion.value.s) =>
                      conversion.current_value = PyFloat(0)

\* the same without "never raises": what the calls that return have stored
C21_CoercesWhenReturning ==
    conversion.done /\ ~conversion.raised =>
        /\ IsBool(conversion.original_value) =>
               conversion.current_value = PyBool(Truthy(conversion.value))
        /\ conversion.original_value.t = "int" /\ conversion.value.t = "str" =>
               /\ C21_IsNumeric(conversion.value.s) =>
                      conversion.current_value =
                          PyInt(Trunc(C21_Number(conversion.value.s).v.n))
               /\ C21_IsInvalid(conversion.value.s) =>
                      conversion.current_value = PyInt(0)
        /\ IsFloat(conversion.original_value) /\ conversion.value.t = "str" =>
               /\ C21_IsNumeric(conversion.value.s) =>
                      conversion.current_value = C21_Number(conversion.value.s).v
               /\ C21_IsInvalid(conversion.value.s) =>
                      conversion.current_value = PyFloat(0)


(***************************************************************************)
(* C22: compare_configurations emits at most one Difference for each path  *)
(* in the union of both mappings: field_removed when the path is in the    *)
(* first mapping only, field_added when it is in the second only,          *)
(* type_changed when it is in both with different types, whatever the      *)
(* values, value_changed when it is in both with equal types and values    *)
(* unequal under the equality rule, and none when the values are equal.    *)
(***************************************************************************)
\* the equality rule: None equals None only; numbers are equal within
\* 1e-10, which for numbers given in tenths is being the same number;
\* strings are equal when their trimmed texts are; lists and tuples are
\* equal when of one length and equal element by element
RECURSIVE C22_EqualityRule(_, _)
C22_EqualityRule(a, b) ==
    CASE a.t = "NoneType" \/ b.t = "NoneType" -> a.t = b.t
      [] IsNumber(a) /\ IsNumber(b) ->
             (IF a.t = "float" THEN a.n ELSE 10 * a.n)
                 = (IF b.t = "float" THEN b.n ELSE 10 * b.n)
      [] a.t = "str" /\ b.t = "str" -> LStrip(RStrip(a.s)) = LStrip(RStrip(b.s))
      [] a.t \in {"list", "tuple"} /\ b.t \in {"list", "tuple"} ->
             /\ Len(a.e) = Len(b.e)
             /\ \A i \in 1..Len(a.e) : C22_EqualityRule(a.e[i], b.e[i])
      [] OTHER -> a = b

\* the kinds of the differences emitted for path
C22_Kinds(path) ==
    [i \in {j \in 1..Len(comparison.differences) :
               comparison.differences[j].field_path = path} |->
        comparison.differences[i].difference_type]

\* what the claim wants emitted for path: a set holding one kind, or none
C22_Expected(path) ==
    LET in1 == path \in DictKeys(comparison.config1_data)
        in2 == path \in DictKeys(comparison.config2_data)
        f1 == DictGet(comparison.config1_data, path)
        f2 == DictGet(comparison.config2_data, path)
    IN  IF in1 /\ ~in2 THEN {"field_removed"}
        ELSE IF in2 /\ ~in1 THEN {"field_added"}
        ELSE IF f1.type # f2.type THEN {"type_changed"}
        ELSE IF ~C22_EqualityRule(f1.value, f2.value) THEN {"value_changed"}
        ELSE {}

C22_OneDifferencePerPath ==
    comparison.done =>
        /\ \A i \in 1..Len(comparison.differences) :
               comparison.differences[i].field_path
                   \in DictKeys(comparison.config1_data)
                           \cup DictKeys(comparison.config2_data)
        /\ \A path \in DictKeys(comparison.config1_data)
                           \cup DictKeys(comparison.config2_data) :
               /\ Cardinality(DOMAIN C22_Kinds(path)) <= 1
               /\ {C22_Kinds(path)[i] : i \in DOMAIN C22_Kinds(path)}
                      = C22_Expected(path)

\* a comparison that emitted type_changed for a field whose values are
\* equal under the rule and nothing for a field whose strings differ in
\* surrounding whitespace only
C22_Witness ==
    /\ comparison.done
    /\ Len(comparison.differences) = 1
    /\ comparison.differences[1].difference_type = "type_changed"
    /\ C22_EqualityRule(comparison.differences[1].value1,
                        comparison.differences[1].value2)
    /\ \E i \in 1..Len(comparison.config1_data) :
           LET f1 == comparison.config1_data[i].v
           IN  /\ f1.value.t = "str"
               /\ DictHas(comparison.config2_data, f1.path)
               /\ DictGet(comparison.config2_data, f1.path).type = f1.type
               /\ DictGet(comparison.config2_data, f1.path).value # f1.value


(***************************************************************************)
(* C23: when two fields in different sections share a leaf key, the        *)
(* writers resolve every line bearing that key to the first such field in  *)
(* field-table order: with only later fields of shared keys changed the    *)
(* lines written are the original lines, and with the first field changed  *)
(* every line bearing the key is written with the first field's value.     *)
(***************************************************************************)
\* the last segment of a dotted path
RECURSIVE C23_Leaf(_)
C23_Leaf(path) ==
    IF \E i \in 1..Len(path) : path[i] = "."
    THEN C23_Leaf(Tail(path))
    ELSE path

\* fields[i] is the first field with its leaf key, and another one follows
C23_FirstOfShared(fields, i) ==
    /\ \A j \in 1..(i - 1) : C23_Leaf(fields[j].k) # C23_Leaf(fields[i].k)
    /\ \E j \in (i + 1)..Len(fields) :
           C23_Leaf(fields[j].k) = C23_Leaf(fields[i].k)

\* fields[i] has the leaf key of an earlier field
C23_Later(fields, i) ==
    \E j \in 1..(i - 1) : C23_Leaf(fields[j].k) = C23_Leaf(fields[i].k)

C23_Changed(field_info) == ~PyEq(field_info.value, field_info.original_value)

\* the text of line up to the first character of stops
RECURSIVE C23_UpTo(_, _)
C23_UpTo(line, stops) ==
    IF line = <<>> \/ Head(line) \in stops THEN <<>>
    ELSE <<Head(line)>> \o C23_UpTo(Tail(line), stops)

\* the key a line of the document bears, <<>> when it bears none
C23_LineKey(kind, line) ==
    IF kind = "json"
    THEN IF line # <<>> /\ Head(line) = DQ
         THEN C23_UpTo(Tail(line), {DQ})
         ELSE <<>>
    ELSE IF line # <<>> /\ Head(line) \notin {"[", "/", NL}
              /\ \E i \in 1..Len(line) : line[i] = "="
         THEN C23_UpTo(line, {"=", " "})
         ELSE <<>>

\* the value a line holds: what follows the : or the = and the blanks
\* after it, up to the next blank, comma, brace or line end
C23_LineValue(kind, line) ==
    LET sep == IF kind = "json" THEN ":" ELSE "="
        at == CHOOSE i \in 1..Len(line) :
                  line[i] = sep /\ \A j \in 1..(i - 1) : line[j] # sep
    IN  C23_UpTo(LStrip(SubSeq(line, at + 1, Len(line))),
                 {" ", ",", "}", NL})

C23_Written(kind, field_info) ==
    IF kind = "json"
    THEN _format_value_for_json(field_info.value, field_info.type)
    ELSE _format_value_for_ini(field_info.value, field_info.type)

C24_NoSharedLeaf(config) ==
    \A i, j \in 1..Len(config.fields) :
        i # j => C23_Leaf(config.fields[i].k) # C23_Leaf(config.fields[j].k)

\* a value read from the file is the value the model holds: equal to it,
\* or with the same text (a file of plain text gives the string 2 back as
\* the number 2)
C24_SameValue(read, held) == PyEq(read, held) \/ PyStrOf(read) = PyStrOf(held)

\* the parsed file gives each field of config the value the model holds
\* under the field's key
C24_FileHolds(parsed, config, prefix) ==
    /\ ~parsed.raised
    /\ \A i \in 1..Len(config.fields) :
           LET path == config.fields[i].k
           IN  /\ HasField(parsed.config, path)
               /\ C24_SameValue(
                      DictGet(parsed.config.fields, path).value,
                      field_states[prefix \o path].current_value)

C24_FilesHoldCurrentValues ==
    /\ last.op = "apply_changes"
    /\ last.ret
    /\ json_config # None
    /\ ini_config # None
    /\ C24_NoSharedLeaf(json_config[1])
    /\ C24_NoSharedLeaf(ini_config[1])
    => /\ C24_FileHolds(json_parse_file(ReadLines(disk[json_file_path[1]])),
                        json_config[1], <<>>)
       /\ C24_FileHolds(ini_parse_file(ReadLines(disk[ini_file_path[1]])),
                        ini_config[1], IniPrefix)


(***************************************************************************)
(* C25: every field found inside a nested JSON object, at any nesting      *)
(* depth, has as category the key of the nearest enclosing object, the     *)
(* object that directly contains the field: exactly one key and not a      *)
(* dotted path prefix.                                                     *)
(***************************************************************************)
\* the segments of a dotted path; the keys of the documents hold no dot
RECURSIVE C25_Segments(_)
C25_Segments(path) ==
    IF \E i \in 1..Len(path) : path[i] = "."
    THEN <<C23_UpTo(path, {"."})>>
             \o C25_Segments(SubSeq(path, Len(C23_UpTo(path, {"."})) + 2,
                                    Len(path)))
    ELSE <<path>>

\* the field lies inside an object of the document
C25_Nested(path) == Len(C25_Segments(path)) >= 2

\* the key of the object that directly contains the field
C25_NearestKey(path) == C25_Segments(path)[Len(C25_Segments(path)) - 1]

\* the key of the outermost object that contains the field
C25_OutermostKey(path) == C25_Segments(path)[1]

C26_HasShape(value, field_type) ==
    CASE field_type = "boolean" -> value.t = "bool"
      [] field_type = "integer" -> value.t = "int"
      [] field_type = "float" -> value.t = "float"
      [] field_type = "string" -> value.t = "str"
      [] field_type = "array" -> value.t \in {"list", "tuple"}
      [] OTHER -> FALSE

C26_ValuesKeepTheirShape ==
    \A p \in DOMAIN field_states :
        /\ get_field_info(Self, p) # None
        /\ C26_HasShape(field_states[p].current_value,
                        get_field_info(Self, p)[1].type)


(***************************************************************************)
(* C27: in every state reached through add_validation_error,              *)
(* add_validation_warning, clear_validation, set_value, revert and         *)
(* apply_changes, a FieldState's validation_state is error exactly when    *)
(* validation_errors is not empty, warning exactly when validation_errors  *)
(* is empty and validation_warnings is not, and valid exactly when both    *)
(* are empty.                                                              *)
(***************************************************************************)
C27_ValidationStateFollowsLists ==
    /\ fs.validation_state = "error" <=> fs.validation_errors # <<>>
    /\ fs.validation_state = "warning" <=>
           fs.validation_errors = <<>> /\ fs.validation_warnings # <<>>
    /\ fs.validation_state = "valid" <=>
           fs.validation_errors = <<>> /\ fs.validation_warnings = <<>>

\* a warning added to a FieldState that holds an error
C27_Witness ==
    /\ last.op = "FieldState.add_validation_warning"
    /\ fs.validation_errors # <<>>
    /\ fs.validation_warnings # <<>>
    /\ fs.validation_state = "error"


(***************************************************************************)
(* C28: set_field_value, revert_field, revert_all_changes and              *)
(* apply_changes change, within a ConfigData, only FieldInfo.value:        *)
(* raw_lines, the set and order of the field paths, and each FieldInfo's   *)
(* path, description, type, category and parse-time original_value stay    *)
(* as they are.                                                            *)
(***************************************************************************)
\* a FieldInfo without its value
C28_Fixed(field_info) == [field_info EXCEPT !.value = PyNone]

\* the ConfigData after is the ConfigData before, but for the values
C28_SameButValues(before, after) ==
    /\ (before = None) = (after = None)
    /\ before # None =>
           /\ after[1].raw_lines = before[1].raw_lines
           /\ Len(after[1].fields) = Len(before[1].fields)
           /\ \A i \in 1..Len(before[1].fields) :
                  /\ after[1].fields[i].k = before[1].fields[i].k
                  /\ C28_Fixed(after[1].fields[i].v)
                         = C28_Fixed(before[1].fields[i].v)

C28_OnlyValuesChange ==
    [][last'.op \in {"set_field_value", "revert_field", "revert_all_changes",
                     "apply_changes"}
           => /\ C28_SameButValues(json_config, json_config')
              /\ C28_SameButValues(ini_config, ini_config')]_vars

\* a set_field_value that changed the value of a FieldInfo of a loaded
\* document away from its parse-time value
C28_Witness ==
    /\ last.op = "set_field_value"
    /\ last.ret
    /\ get_field_info(Self, last.path) # None
    /\ get_field_info(Self, last.path)[1].value
           # get_field_info(Self, last.path)[1].original_value


(***************************************************************************)
(* C29: every observer registered at the moment a notification starts is   *)
(* invoked exactly once for that notification, even when an observer       *)
(* calls add_observer or remove_observer, for example to unregister        *)
(* itself, from inside its callback.                                       *)
(***************************************************************************)
\* how many times a notification invoked observer
C29_Invocations(notification, observer) ==
    Cardinality({j \in 1..Len(notification.invoked) :
                    notification.invoked[j] = observer})

C29_RegisteredInvokedOnce ==
    \A i \in 1..Len(notified) :
        \A j \in 1..Len(notified[i].registered) :
            C29_Invocations(notified[i], notified[i].registered[j]) = 1

\* with no observer that unregisters itself among those registered, every
\* registered observer is invoked exactly once
C29_OnceWhenNoneUnregisters ==
    \A i \in 1..Len(notified) :
        (\A j \in 1..Len(notified[i].registered) :
             notified[i].registered[j] # "unregistering")
        => \A j \in 1..Len(notified[i].registered) :
               C29_Invocations(notified[i], notified[i].registered[j]) = 1


(***************************************************************************)
(* C30: after a successful load no JSON field and INI field share a        *)
(* field_states key: field_states has as many entries as there are JSON    *)
(* fields and INI fields together, and a set_field_value or revert_field   *)
(* addressed to one key changes the value of exactly one FieldInfo, in     *)
(* the document that field came from.                                      *)
(***************************************************************************)
\* the FieldInfos of a document whose value the step changed
C30_Changed(before, after) ==
    IF before = None \/ after = None THEN {}
    ELSE {i \in 1..Len(before[1].fields) :
             after[1].fields[i].v.value # before[1].fields[i].v.value}

C30_KeysDisjoint ==
    [][/\ (last'.op = "load_configuration" /\ last'.ret) =>
              Cardinality(DOMAIN field_states')
                  = Len(json_config'[1].fields) + Len(ini_config'[1].fields)
       /\ (last'.op \in {"set_field_value", "revert_field"} /\ last'.ret) =>
              /\ Cardinality(C30_Changed(json_config, json_config'))
                     + Cardinality(C30_Changed(ini_config, ini_config')) = 1
              /\ (C30_Changed(ini_config, ini_config') # {})
                     = StartsWith(last'.path, IniPrefix)]_vars

====
